---- MODULE Spec2Model ----
(***************************************************************************)
(* Repetition detectors of pushup-ai-tracker.                              *)
(*                                                                         *)
(* The repository holds several revisions of the detector classes.  One    *)
(* behaviour of this model is the life of one detector instance: Init      *)
(* constructs one revision (impl), and the actions are the pose-result     *)
(* callback (onResults -> processLandmarks) and reset().                   *)
(*                                                                         *)
(* Numbers.  Landmark coordinates are integers (normalised coordinates on  *)
(* a fixed grid).  Angles are whole degrees: calculateAngle is computed    *)
(* from the coordinates with the dot-product / arccosine formula, the      *)
(* arccosine read off a table of cos(d)*|cos(d)| for d = 0..180.  NaN is   *)
(* the value an arithmetic operation yields on 0/0 or on a NaN operand;    *)
(* every comparison with NaN is false.                                     *)
(***************************************************************************)
EXTENDS Integers, Sequences, FiniteSets, TLC

(***************************************************************************)
(* Bounds of the model                                                     *)
(***************************************************************************)
\* largest repetition count a behaviour reaches
MaxCount == 2
\* largest value of a run counter (consecutiveUpFrames, upFrameCount, ...)
MaxRun == 4
\* largest requiredUpFrames a detector is constructed with
MaxRequired == 3

(***************************************************************************)
(* Program constants                                                       *)
(***************************************************************************)
upAngleThreshold == 160
downAngleThreshold == 100

\* JavaScript NaN (an angle is otherwise in 0..180)
NaN == -1

\* enum PushupState / SquatState
Unknown == "Unknown"
Up == "Up"
Down == "Down"
\* the first state of the push-up revision with the visibility gate
WaitingForUp == "WaitingForUp"

(***************************************************************************)
(* Landmarks                                                               *)
(***************************************************************************)
\* indices of POSE_LANDMARK_NAMES the detectors read
LEFT_SHOULDER == 11
RIGHT_SHOULDER == 12
LEFT_ELBOW == 13
RIGHT_ELBOW == 14
LEFT_WRIST == 15
RIGHT_WRIST == 16
LEFT_HIP == 23
RIGHT_HIP == 24
LEFT_KNEE == 25
RIGHT_KNEE == 26
LEFT_ANKLE == 27
RIGHT_ANKLE == 28
LEFT_FOOT_INDEX == 31
RIGHT_FOOT_INDEX == 32

Joints ==
    {LEFT_SHOULDER, RIGHT_SHOULDER, LEFT_ELBOW, RIGHT_ELBOW, LEFT_WRIST,
     RIGHT_WRIST, LEFT_HIP, RIGHT_HIP, LEFT_KNEE, RIGHT_KNEE, LEFT_ANKLE,
     RIGHT_ANKLE, LEFT_FOOT_INDEX, RIGHT_FOOT_INDEX}

\* a NormalizedLandmark; visibility in tenths; def = FALSE is `undefined'
Lm(px, py, vis) ==
    [def |-> TRUE, x |-> px, y |-> py, z |-> 0, visibility |-> vis]
Undefined == [def |-> FALSE, x |-> 0, y |-> 0, z |-> 0, visibility |-> 0]

(***************************************************************************)
(* Arithmetic with NaN                                                     *)
(***************************************************************************)
\* a > b in JavaScript
Gt(a, b) == a # NaN /\ b # NaN /\ a > b
\* a < b in JavaScript
Lt(a, b) == a # NaN /\ b # NaN /\ a < b
\* (a + b) / 2
Avg2(a, b) == IF a = NaN \/ b = NaN THEN NaN ELSE (a + b) \div 2
\* (mutant) an undefined s is replaced by a
BlendStartsAgain(s, a) ==
    IF a = NaN THEN NaN
    ELSE IF s = NaN THEN a ELSE (s * 8 + a * 2 + 5) \div 10
\* s * 0.8 + a * 0.2, rounded to a whole number
Blend(s, a) == IF s = NaN \/ a = NaN THEN NaN ELSE (s * 8 + a * 2 + 5) \div 10

(***************************************************************************)
(* Angle geometry                                                          *)
(***************************************************************************)
\* round(10000 * cos(d) * |cos(d)|) for d = 0..180, at index d + 1
CosTable ==
  <<10000, 9997, 9988, 9973, 9951, 9924, 9891, 9851, 9806, 9755, 9698, 9636,
    9568, 9494, 9415, 9330, 9240, 9145, 9045, 8940, 8830, 8716, 8597, 8473,
    8346, 8214, 8078, 7939, 7796, 7650, 7500, 7347, 7192, 7034, 6873, 6710,
    6545, 6378, 6210, 6040, 5868, 5696, 5523, 5349, 5174, 5000, 4826, 4651,
    4477, 4304, 4132, 3960, 3790, 3622, 3455, 3290, 3127, 2966, 2808, 2653,
    2500, 2350, 2204, 2061, 1922, 1786, 1654, 1527, 1403, 1284, 1170, 1060,
    955, 855, 760, 670, 585, 506, 432, 364, 302, 245, 194, 149,
    109, 76, 49, 27, 12, 3, 0, -3, -12, -27, -49, -76,
    -109, -149, -194, -245, -302, -364, -432, -506, -585, -670, -760, -855,
    -955, -1060, -1170, -1284, -1403, -1527, -1654, -1786, -1922, -2061, -2204, -2350,
    -2500, -2653, -2808, -2966, -3127, -3290, -3455, -3622, -3790, -3960, -4132, -4304,
    -4477, -4651, -4826, -5000, -5174, -5349, -5523, -5696, -5868, -6040, -6210, -6378,
    -6545, -6710, -6873, -7034, -7192, -7347, -7500, -7650, -7796, -7939, -8078, -8214,
    -8346, -8473, -8597, -8716, -8830, -8940, -9045, -9145, -9240, -9330, -9415, -9494,
    -9568, -9636, -9698, -9755, -9806, -9851, -9891, -9924, -9951, -9973, -9988, -9997,
    -10000>>

\* the largest d in lo..hi with CosTable[d + 1] >= sq (the table decreases)
RECURSIVE AcosSearch(_, _, _)
AcosSearch(lo, hi, sq) ==
    IF lo = hi THEN lo
    ELSE LET mid == (lo + hi + 1) \div 2
         IN  IF CosTable[mid + 1] >= sq
             THEN AcosSearch(mid, hi, sq)
             ELSE AcosSearch(lo, mid - 1, sq)

\* Math.acos(dot / sqrt(magSq)) * 180 / Math.PI, in whole degrees; 0/0 is NaN
AcosDeg(dot, magSq) ==
    IF magSq = 0 THEN NaN
    ELSE LET q == (dot * dot * 10000) \div magSq
         IN  AcosSearch(0, 180, IF dot < 0 THEN 0 - q ELSE q)

\* calculateAngle(a, b, c) / angle(a, b, c): the angle at b
calculateAngle(a, b, c) ==
    LET abx == a.x - b.x
        aby == a.y - b.y
        cbx == c.x - b.x
        cby == c.y - b.y
        dot == abx * cbx + aby * cby
        magSq == (abx * abx + aby * aby) * (cbx * cbx + cby * cby)
    IN  AcosDeg(dot, magSq)

(***************************************************************************)
(* Pose results fed to the detectors                                       *)
(***************************************************************************)
\* shoulder, elbow and wrist of one arm: elbow at (ex, 10), shoulder sdy
\* below it (image y grows downwards), wrist at offset (wdx, wdy)
Arm(s, e, w, ex, sdy, wdx, wdy) ==
    (s :> Lm(ex, 10 + sdy, 9)) @@ (e :> Lm(ex, 10, 9)) @@
    (w :> Lm(ex + wdx, 10 + wdy, 9))
LeftArm(sdy, wdx, wdy) ==
    Arm(LEFT_SHOULDER, LEFT_ELBOW, LEFT_WRIST, 10, sdy, wdx, wdy)
RightArm(sdy, wdx, wdy) ==
    Arm(RIGHT_SHOULDER, RIGHT_ELBOW, RIGHT_WRIST, 30, sdy, wdx, wdy)

\* hip, knee and ankle of both legs and the feet, all with visibility vis:
\* knees at y = 30, hips hdy below them, ankles at offset (adx, 10)
Legs(hdy, adx, vis) ==
    (LEFT_HIP :> Lm(10, 30 + hdy, vis)) @@ (RIGHT_HIP :> Lm(30, 30 + hdy, vis)) @@
    (LEFT_KNEE :> Lm(10, 30, vis)) @@ (RIGHT_KNEE :> Lm(30, 30, vis)) @@
    (LEFT_ANKLE :> Lm(10 + adx, 40, vis)) @@ (RIGHT_ANKLE :> Lm(30 + adx, 40, vis)) @@
    (LEFT_FOOT_INDEX :> Lm(12 + adx, 41, vis)) @@
    (RIGHT_FOOT_INDEX :> Lm(32 + adx, 41, vis))

\* a landmark list with the listed joints undefined
Without(l, js) == [j \in Joints |-> IF j \in js THEN Undefined ELSE l[j]]

\* both elbow angles 170, shoulders above elbows
PoseUp170 == LeftArm(-3, 1, 6) @@ RightArm(-3, 1, 6) @@ Legs(-10, 0, 9)
\* both elbow angles 90, shoulders below elbows
PoseDown90 == LeftArm(3, 6, 0) @@ RightArm(3, 6, 0) @@ Legs(-10, 0, 9)
\* both elbow angles 129, shoulders above elbows
PoseMidAbove == LeftArm(-3, 6, 5) @@ RightArm(-3, 6, 5) @@ Legs(-10, 0, 9)
\* both elbow angles 129, shoulders below elbows (a partial-depth rep)
PosePartial == LeftArm(3, 6, -5) @@ RightArm(3, 6, -5) @@ Legs(-10, 0, 9)
\* left elbow 175, right elbow 155, shoulders above elbows
PoseAsym == LeftArm(-3, 1, 12) @@ RightArm(-3, 5, 11) @@ Legs(-10, 0, 9)
\* both elbow angles 170, shoulders below elbows
PoseStraightBelow == LeftArm(3, 1, -6) @@ RightArm(3, 1, -6) @@ Legs(-10, 0, 9)
\* left wrist coincident with the left elbow, right arm as in PoseUp170
PoseWristOnElbow == LeftArm(-3, 0, 0) @@ RightArm(-3, 1, 6) @@ Legs(-10, 0, 9)
\* PoseUp170 with no wrist landmarks
PoseNoWrists == Without(PoseUp170, {LEFT_WRIST, RIGHT_WRIST})

\* PoseDown90 with no right shoulder landmark
PoseNoShoulder == Without(PoseDown90, {RIGHT_SHOULDER})

PushupPoses ==
    {PoseUp170, PoseDown90, PoseMidAbove, PosePartial, PoseAsym,
     PoseWristOnElbow, PoseNoWrists, PoseNoShoulder}

\* PoseUp170 and PoseDown90 with no leg landmark visible
PoseUpHidden == LeftArm(-3, 1, 6) @@ RightArm(-3, 1, 6) @@ Legs(-10, 0, 0)
PoseDownHidden == LeftArm(3, 6, 0) @@ RightArm(3, 6, 0) @@ Legs(-10, 0, 0)
PushupGatedPoses ==
    {PoseUp170, PoseDown90, PoseMidAbove, PoseUpHidden, PoseDownHidden,
     PoseNoWrists}

\* both shoulders at height sy, shifted by sdx
Shoulders(sdx, sy) ==
    (LEFT_SHOULDER :> Lm(10 + sdx, sy, 9)) @@ (RIGHT_SHOULDER :> Lm(30 + sdx, sy, 9))

\* a standing or squatting body: hips at offset (hdx, hdy) from the knees,
\* shoulders 10 above the hips and tdx beside them, legs with visibility vis
Body(hdx, hdy, tdx, vis) ==
    Shoulders(hdx + tdx, 20 + hdy) @@ LeftArm(-3, 1, 6) @@ RightArm(-3, 1, 6) @@
    (LEFT_HIP :> Lm(10 + hdx, 30 + hdy, vis)) @@
    (RIGHT_HIP :> Lm(30 + hdx, 30 + hdy, vis)) @@ Legs(0, 0, vis)

\* knee angles 180, hips above knees, torso upright
SquatUp == Body(0, -10, 0, 9)
\* knee angles 56, hips below knees, torso upright
SquatDown == Body(6, 4, 0, 9)
\* knee angles 126, hips above knees, torso upright
SquatMid == Body(8, -6, 0, 9)
\* SquatUp and SquatDown with no leg landmark visible
SquatUpHidden == Body(0, -10, 0, 0)
SquatDownHidden == Body(6, 4, 0, 0)
\* SquatUp with the torso turned by 31 degrees
SquatUpTurned == Body(0, -10, -6, 9)
\* SquatUp with no shoulder landmarks
SquatNoShoulders == Without(SquatUp, {LEFT_SHOULDER, RIGHT_SHOULDER})
\* SquatUp with no ankle landmarks
SquatNoAnkles == Without(SquatUp, {LEFT_ANKLE, RIGHT_ANKLE})

\* complete landmark lists, for the revision that smooths the landmarks
SquatSmoothPoses == {SquatUp, SquatDown, SquatMid}
SquatPlainPoses == {SquatUp, SquatDown, SquatMid, SquatNoAnkles}
SquatVisibilityPoses ==
    {SquatUp, SquatDown, SquatUpHidden, SquatDownHidden, SquatUpTurned,
     SquatNoShoulders}

\* a Results object: poseLandmarks is <<l>>, or <<>> when the pose source
\* found no body
WithLandmarks(l) == [poseLandmarks |-> <<l>>]
NoLandmarks == [poseLandmarks |-> <<>>]

(***************************************************************************)
(* State                                                                   *)
(***************************************************************************)
VARIABLES
    impl,                   \* the detector revision that was constructed
    requiredUpFrames,       \* constructor argument
    state,                  \* PushupState / SquatState
    count,
    consecutiveUpFrames,
    lastAvgAngle,
    smoothedAngle,
    landmarks,              \* <<>> is null, <<l>> a landmark list
    isInitialized,
    smoothedLandmarks,      \* <<>> is null, <<l>> the smoothing buffer
    isDown,
    angleHistory,
    torsoHistory,
    framesBelowVisibility,
    downFrameCount,
    upFrameCount,
    lastOp,                 \* history: the operation that ran last
    lastResults,            \* history: the Results it was given
    lastLabel,              \* history: what kind of frame that was
    prev,                   \* history: the fields before it ran
    upRun,                  \* history: up-frames in a row since a non-up
                            \*   frame left the state Down (-1: none did)
    runBase,                \* history: count when that run started
    enteredDown,            \* history: that non-up frame entered Down
    phase,                  \* history: shape of the frames since reset()
    phaseUps,               \* history: up-frames of its final up phase
    upAfterDown,            \* history: an up-frame arrived in state Down
    sandwich,               \* history: "missed" after a first frame without
                            \*   visible legs, "closed" after the visible
                            \*   frame that follows it, else "none"
    shadow,                 \* history: isDown and count, had that frame
                            \*   shown the legs
    poseInit,               \* initPromise: "pending", "fulfilled", "rejected"
    pose,                   \* this.pose: "null" or "set"
    hooked,                 \* the callback was given to pose.onResults
    call,                   \* the detect() call in progress and its outcome
    crossed,                \* history: its frame was in flight at cleanup()
    cleaned,                \* history: cleanup() has been called
    initCalls,              \* history: how often initPose() was called
    mounted,                \* PushupTracker: "no", "mounted", "unmounted"
    loopWanted,             \* cameraEnabled && videoReady && width > 0
    loopPc,                 \* where each started animate loop is
    animationRef,           \* animationRef.current: the loop whose frame
                            \*   request it holds (0: undefined)
    cleanupCalls,           \* history: cleanup() calls on each detector
    legSeen,                \* field of the push-up revision with the
                            \*   visibility gate
    consecutiveDownFrames,  \* field of the debounced SquatDetector
    requiredDownFrames,     \* its second constructor argument
    poisoned,               \* history: PushupDetector has processed a frame
                            \*   with an undefined elbow angle since the
                            \*   constructor or reset()
    turn,                   \* history: the orientation the gated squat
                            \*   detector accepted last, the frames in a row
                            \*   turned away from it, count and isDown
                            \*   before the first of them
    hiddenRun,              \* history: frames without visible legs in a row
    gatePassed,             \* history: the last frame got past the gate
    sameRun,                \* history: the label of the last frame the
                            \*   debounced squat detector processed and how
                            \*   many frames in a row had it up to then
    firstFrame,             \* history: the last operation processed the
                            \*   first frame since the constructor or reset()
    cameraEnabled,          \* PushupTracker: the state hooks of the same name
    videoReady,
    status,                 \* "ready", "tracking" or "paused"
    isTracking,             \* the prop the parent passes with setIsTracking
    trackerCount,           \* its state hook count: the push-ups displayed
    squatCount,             \* the squats displayed
    selectedExercise,
    sessionTime,            \* the seconds displayed
    startTimeRef,           \* startTimeRef.current, in half seconds
    counted,                \* what detectorRef and squatDetectorRef hold:
                            \*   the count of each detector and whether it
                            \*   is as the constructor or reset() left it
    inflight,               \* the animate() call that awaits detect(), if
                            \*   any: its isTracking, selectedExercise and
                            \*   newCount
    completed,              \* history: the sessions the handler that ran
                            \*   last gave to onSessionComplete
    handler,                \* history: the handler that ran last
    requested,              \* the getUserMedia() calls of enableCamera()
                            \*   that are pending
    stopped,                \* history: stopTracking ran and no startTracking
                            \*   has begun a session since
    resetFrom,              \* history: the detectors before it ran, if it
                            \*   was startTracking
    sessions,               \* localStorage: the saved community sessions
    now,                    \* the clock, in days
    highscores,             \* what the last computeHighscores call returned,
                            \*   for the storage and the clock as they are
    users,                  \* Supabase auth: the user_metadata.username of
                            \*   each e-mail address, <<>> if not registered
    sessionRows,            \* Supabase: the rows of the table sessions
    columns,                \* the columns that table has, of user_id and
                            \*   username
    lastCall                \* history: the last call of register or
                            \*   saveSessionServer and whether it threw

\* the fields of the state machines
machine == <<state, count, consecutiveUpFrames, lastAvgAngle, smoothedAngle>>
\* the fields only the visibility-gated SquatDetector has
gated ==
    <<isDown, angleHistory, torsoHistory, framesBelowVisibility,
      downFrameCount, upFrameCount>>
fields ==
    <<machine, landmarks, isInitialized, smoothedLandmarks, gated,
      consecutiveDownFrames, legSeen>>
history ==
    <<lastOp, lastResults, lastLabel, prev, upRun, runBase, enteredDown, phase,
      phaseUps, upAfterDown, sandwich, shadow, sameRun, firstFrame, poisoned,
      turn, hiddenRun,
      gatePassed>>
\* the pose source of a detector and the detect() call on it
lifecycle == <<poseInit, pose, hooked, call, crossed, cleaned, initCalls>>
\* the PushupTracker component
tracker == <<mounted, loopWanted, loopPc, animationRef, cleanupCalls>>
\* what no method of a detector touches
\* the Supabase project
server == <<users, sessionRows, columns, lastCall>>
\* the local community store
community == <<sessions, now, highscores, server>>
\* the session controls of the PushupTracker component
controls ==
    <<cameraEnabled, videoReady, status, isTracking, trackerCount, squatCount,
      selectedExercise, sessionTime, startTimeRef, counted, inflight,
      completed, handler, resetFrom, requested, stopped>>
outside == <<tracker, community, controls>>
vars == <<impl, requiredUpFrames, requiredDownFrames, fields, history, lifecycle, outside>>

\* the fields of the detector, as a record
Snapshot ==
    [state |-> state, count |-> count,
     consecutiveUpFrames |-> consecutiveUpFrames,
     lastAvgAngle |-> lastAvgAngle, smoothedAngle |-> smoothedAngle,
     smoothedLandmarks |-> smoothedLandmarks, isDown |-> isDown,
     angleHistory |-> angleHistory, torsoHistory |-> torsoHistory,
     framesBelowVisibility |-> framesBelowVisibility,
     downFrameCount |-> downFrameCount, upFrameCount |-> upFrameCount,
     consecutiveDownFrames |-> consecutiveDownFrames, legSeen |-> legSeen]

(***************************************************************************)
(* PushupDetector (src/lib/PushupDetector.ts)                              *)
(***************************************************************************)
\* (mutant) the early return does not look at the wrists
PushupMissingShouldersElbows(l) ==
    \E j \in {LEFT_SHOULDER, LEFT_ELBOW, RIGHT_SHOULDER, RIGHT_ELBOW} : ~l[j].def

\* the early return of processLandmarks: a required landmark is undefined
PushupMissing(l) ==
    \E j \in {LEFT_SHOULDER, LEFT_ELBOW, LEFT_WRIST,
              RIGHT_SHOULDER, RIGHT_ELBOW, RIGHT_WRIST} : ~l[j].def

armsStraight(leftAngle, rightAngle) ==
    Gt(leftAngle, upAngleThreshold) /\ Gt(rightAngle, upAngleThreshold)

\* (mutant) the elbows count as bent only below 90 degrees
elbowsBentBelowRightAngle(leftAngle, rightAngle) ==
    Lt(leftAngle, 90) /\ Lt(rightAngle, 90)

elbowsBentEnough(leftAngle, rightAngle) ==
    Lt(leftAngle, downAngleThreshold) /\ Lt(rightAngle, downAngleThreshold)

\* isUpFrame and isDownFrame from the two elbow angles
PushupClassify(l, leftAngle, rightAngle) ==
    LET shouldersAboveElbows ==
            /\ l[LEFT_SHOULDER].y < l[LEFT_ELBOW].y
            /\ l[RIGHT_SHOULDER].y < l[RIGHT_ELBOW].y
        shouldersBelowElbows ==
            /\ l[LEFT_SHOULDER].y > l[LEFT_ELBOW].y
            /\ l[RIGHT_SHOULDER].y > l[RIGHT_ELBOW].y
    IN  [leftAngle |-> leftAngle,
         rightAngle |-> rightAngle,
         avgAngle |-> Avg2(leftAngle, rightAngle),
         isUpFrame |-> shouldersAboveElbows /\ armsStraight(leftAngle, rightAngle),
         isDownFrame |->
             shouldersBelowElbows /\ elbowsBentEnough(leftAngle, rightAngle)]

\* the locals of processLandmarks for a list with the required landmarks
PushupLocals(l) ==
    LET angles == <<calculateAngle(l[LEFT_SHOULDER], l[LEFT_ELBOW], l[LEFT_WRIST]),
                    calculateAngle(l[RIGHT_SHOULDER], l[RIGHT_ELBOW], l[RIGHT_WRIST])>>
    IN  CHOOSE loc \in {PushupClassify(l, a[1], a[2]) : a \in {angles}} : TRUE

\* (mutant) Down -> Up on any up-frame, whatever the run length
PushupSwitchNoDebounce(st, cnt, run, isUpFrame, isDownFrame, required) ==
    LET run1 == IF isUpFrame THEN run + 1 ELSE 0
    IN  CASE st = Unknown ->
               [state |-> IF isUpFrame THEN Up ELSE Down, count |-> cnt,
                consecutiveUpFrames |-> 0]
          [] st = Up ->
               [state |-> IF isDownFrame THEN Down ELSE Up, count |-> cnt,
                consecutiveUpFrames |-> run1]
          [] st = Down ->
               IF isUpFrame
               THEN [state |-> Up, count |-> cnt + 1, consecutiveUpFrames |-> 0]
               ELSE [state |-> Down, count |-> cnt, consecutiveUpFrames |-> run1]

\* (mutant) the first up-frame after reset() is counted as a repetition
PushupSwitchCountFirstUp(st, cnt, run, isUpFrame, isDownFrame, required) ==
    LET run1 == IF isUpFrame THEN run + 1 ELSE 0
    IN  CASE st = Unknown ->
               [state |-> IF isUpFrame THEN Up ELSE Down,
                count |-> IF isUpFrame THEN cnt + 1 ELSE cnt,
                consecutiveUpFrames |-> 0]
          [] st = Up ->
               [state |-> IF isDownFrame THEN Down ELSE Up, count |-> cnt,
                consecutiveUpFrames |-> run1]
          [] st = Down ->
               IF isUpFrame /\ run1 >= required
               THEN [state |-> Up, count |-> cnt + 1, consecutiveUpFrames |-> 0]
               ELSE [state |-> Down, count |-> cnt, consecutiveUpFrames |-> run1]

\* (mutant) Down -> Up one up-frame later than required
PushupSwitchLateCount(st, cnt, run, isUpFrame, isDownFrame, required) ==
    LET run1 == IF isUpFrame THEN run + 1 ELSE 0
    IN  CASE st = Unknown ->
               [state |-> IF isUpFrame THEN Up ELSE Down, count |-> cnt,
                consecutiveUpFrames |-> 0]
          [] st = Up ->
               [state |-> IF isDownFrame THEN Down ELSE Up, count |-> cnt,
                consecutiveUpFrames |-> run1]
          [] st = Down ->
               IF isUpFrame /\ run1 > required
               THEN [state |-> Up, count |-> cnt + 1, consecutiveUpFrames |-> 0]
               ELSE [state |-> Down, count |-> cnt, consecutiveUpFrames |-> run1]

\* (mutant) in state Up every frame that is not an up-frame enters Down
PushupSwitchUpFallsBack(st, cnt, run, isUpFrame, isDownFrame, required) ==
    LET run1 == IF isUpFrame THEN run + 1 ELSE 0
    IN  CASE st = Unknown ->
               [state |-> IF isUpFrame THEN Up ELSE Down, count |-> cnt,
                consecutiveUpFrames |-> 0]
          [] st = Up ->
               [state |-> IF isUpFrame THEN Up ELSE Down, count |-> cnt,
                consecutiveUpFrames |-> run1]
          [] st = Down ->
               IF isUpFrame /\ run1 >= required
               THEN [state |-> Up, count |-> cnt + 1, consecutiveUpFrames |-> 0]
               ELSE [state |-> Down, count |-> cnt, consecutiveUpFrames |-> run1]

\* the run counter update and the switch over the state
PushupSwitch(st, cnt, run, isUpFrame, isDownFrame, required) ==
    LET run1 == IF isUpFrame THEN run + 1 ELSE 0
    IN  CASE st = Unknown ->
               [state |-> IF isUpFrame THEN Up ELSE Down, count |-> cnt,
                consecutiveUpFrames |-> 0]
          [] st = Up ->
               [state |-> IF isDownFrame THEN Down ELSE Up, count |-> cnt,
                consecutiveUpFrames |-> run1]
          [] st = Down ->
               IF isUpFrame /\ run1 >= required
               THEN [state |-> Up, count |-> cnt + 1, consecutiveUpFrames |-> 0]
               ELSE [state |-> Down, count |-> cnt, consecutiveUpFrames |-> run1]

\* processLandmarks(l)
PushupProcessLandmarks(l) ==
    IF PushupMissing(l)
    THEN UNCHANGED machine
    ELSE \E loc \in {PushupLocals(l)} :
         \E next \in {PushupSwitch(state, count, consecutiveUpFrames,
                                   loc.isUpFrame, loc.isDownFrame, requiredUpFrames)} :
             /\ smoothedAngle' = Blend(smoothedAngle, loc.avgAngle)
             /\ lastAvgAngle' = smoothedAngle'
             /\ state' = next.state
             /\ count' = next.count
             /\ consecutiveUpFrames' = next.consecutiveUpFrames

\* (mutant) reset() leaves the run counter alone
PushupResetKeepsRun ==
    /\ count' = 0
    /\ state' = Unknown
    /\ consecutiveUpFrames' = consecutiveUpFrames
    /\ landmarks' = <<>>
    /\ lastAvgAngle' = 0
    /\ smoothedAngle' = 0

\* reset()
PushupResetFields ==
    /\ count' = 0
    /\ state' = Unknown
    /\ consecutiveUpFrames' = 0
    /\ landmarks' = <<>>
    /\ lastAvgAngle' = 0
    /\ smoothedAngle' = 0

\* (mutant) every frame replaces the buffer
smoothNoBlend(lms) == lms

(***************************************************************************)
(* SquatDetector with landmark smoothing and hip/knee ordering             *)
(* (src/lib/SquatDetector.ts, second class)                                *)
(***************************************************************************)
\* smooth(lms), for a list with every landmark defined: the new buffer
smooth(lms) ==
    IF smoothedLandmarks = <<>>
    THEN lms
    ELSE [i \in Joints |->
             LET before == smoothedLandmarks[1][i]
                 cur == lms[i]
             IN  [def |-> TRUE,
                  x |-> Blend(before.x, cur.x),
                  y |-> Blend(before.y, cur.y),
                  z |-> Blend(before.z, cur.z),
                  visibility |-> Blend(before.visibility, cur.visibility)]]

\* the early return of processLandmarks: a required landmark is undefined
SquatMissing(l) ==
    \E j \in {LEFT_HIP, RIGHT_HIP, LEFT_KNEE, RIGHT_KNEE, LEFT_ANKLE, RIGHT_ANKLE} :
        ~l[j].def

\* isUpFrame and isDownFrame from the two knee angles
SquatClassify(l, leftAngle, rightAngle) ==
    LET hipsAboveKnees ==
            l[LEFT_HIP].y < l[LEFT_KNEE].y /\ l[RIGHT_HIP].y < l[RIGHT_KNEE].y
        hipsBelowKnees ==
            l[LEFT_HIP].y > l[LEFT_KNEE].y /\ l[RIGHT_HIP].y > l[RIGHT_KNEE].y
        legsStraight ==
            Gt(leftAngle, upAngleThreshold) /\ Gt(rightAngle, upAngleThreshold)
    IN  [avg |-> Avg2(leftAngle, rightAngle),
         isUpFrame |-> hipsAboveKnees /\ legsStraight,
         isDownFrame |-> hipsBelowKnees]

\* the locals of processLandmarks for a list with the required landmarks
SquatLocals(l) ==
    LET angles == <<calculateAngle(l[LEFT_HIP], l[LEFT_KNEE], l[LEFT_ANKLE]),
                    calculateAngle(l[RIGHT_HIP], l[RIGHT_KNEE], l[RIGHT_ANKLE])>>
    IN  CHOOSE loc \in {SquatClassify(l, a[1], a[2]) : a \in {angles}} : TRUE

\* (mutant) the Down -> Up transition does not count
SquatSwitchNoCount(st, cnt, run, isUpFrame, isDownFrame, required) ==
    LET run1 == IF isUpFrame THEN run + 1 ELSE 0
    IN  CASE st = Unknown ->
               [state |-> IF isUpFrame THEN Up ELSE Down, count |-> cnt,
                consecutiveUpFrames |-> 0]
          [] st = Up ->
               [state |-> IF isDownFrame THEN Down ELSE Up, count |-> cnt,
                consecutiveUpFrames |-> run1]
          [] st = Down ->
               IF isUpFrame /\ run1 >= required
               THEN [state |-> Up, count |-> cnt, consecutiveUpFrames |-> 0]
               ELSE [state |-> Down, count |-> cnt, consecutiveUpFrames |-> run1]

\* the run counter update and the switch over the state
SquatSwitch(st, cnt, run, isUpFrame, isDownFrame, required) ==
    LET run1 == IF isUpFrame THEN run + 1 ELSE 0
    IN  CASE st = Unknown ->
               [state |-> IF isUpFrame THEN Up ELSE Down, count |-> cnt,
                consecutiveUpFrames |-> 0]
          [] st = Up ->
               [state |-> IF isDownFrame THEN Down ELSE Up, count |-> cnt,
                consecutiveUpFrames |-> run1]
          [] st = Down ->
               IF isUpFrame /\ run1 >= required
               THEN [state |-> Up, count |-> cnt + 1, consecutiveUpFrames |-> 0]
               ELSE [state |-> Down, count |-> cnt, consecutiveUpFrames |-> run1]

\* processLandmarks(l); it also overwrites this.landmarks
SquatSmoothProcessLandmarks(l) ==
    /\ smoothedLandmarks' = <<smooth(l)>>
    /\ landmarks' = smoothedLandmarks'
    /\ UNCHANGED <<smoothedAngle, gated, consecutiveDownFrames>>
    /\ IF SquatMissing(smoothedLandmarks'[1])
       THEN UNCHANGED <<state, count, consecutiveUpFrames, lastAvgAngle>>
       ELSE \E loc \in {SquatLocals(smoothedLandmarks'[1])} :
            \E next \in {SquatSwitch(state, count, consecutiveUpFrames,
                                     loc.isUpFrame, loc.isDownFrame,
                                     requiredUpFrames)} :
                /\ lastAvgAngle' = loc.avg
                /\ state' = next.state
                /\ count' = next.count
                /\ consecutiveUpFrames' = next.consecutiveUpFrames

\* reset()
SquatSmoothResetFields ==
    /\ count' = 0
    /\ state' = Unknown
    /\ landmarks' = <<>>
    /\ smoothedLandmarks' = <<>>
    /\ lastAvgAngle' = 0
    /\ consecutiveUpFrames' = 0
    /\ UNCHANGED <<smoothedAngle, gated, consecutiveDownFrames>>

(***************************************************************************)
(* SquatDetector without debouncing (src/lib/SquatDetector.ts, third class)*)
(***************************************************************************)
\* (mutant) one threshold for both directions
SquatPlainSwitchOneThreshold(st, cnt, avg) ==
    CASE st = Unknown ->
           [state |-> IF Gt(avg, upAngleThreshold) THEN Up ELSE Down, count |-> cnt]
      [] st = Up ->
           [state |-> IF Lt(avg, downAngleThreshold) THEN Down ELSE Up, count |-> cnt]
      [] st = Down ->
           IF Gt(avg, downAngleThreshold)
           THEN [state |-> Up, count |-> cnt + 1]
           ELSE [state |-> Down, count |-> cnt]

\* the switch over the state
SquatPlainSwitch(st, cnt, avg) ==
    CASE st = Unknown ->
           [state |-> IF Gt(avg, upAngleThreshold) THEN Up ELSE Down, count |-> cnt]
      [] st = Up ->
           [state |-> IF Lt(avg, downAngleThreshold) THEN Down ELSE Up, count |-> cnt]
      [] st = Down ->
           IF Gt(avg, upAngleThreshold)
           THEN [state |-> Up, count |-> cnt + 1]
           ELSE [state |-> Down, count |-> cnt]

\* the average knee angle
SquatPlainAvg(l) ==
    Avg2(calculateAngle(l[LEFT_HIP], l[LEFT_KNEE], l[LEFT_ANKLE]),
         calculateAngle(l[RIGHT_HIP], l[RIGHT_KNEE], l[RIGHT_ANKLE]))

\* processLandmarks(l)
SquatPlainProcessLandmarks(l) ==
    /\ UNCHANGED <<consecutiveUpFrames, smoothedAngle, smoothedLandmarks, gated, consecutiveDownFrames>>
    /\ IF SquatMissing(l)
       THEN UNCHANGED <<state, count, lastAvgAngle>>
       ELSE \E avg \in {SquatPlainAvg(l)} :
            \E next \in {SquatPlainSwitch(state, count, avg)} :
                /\ lastAvgAngle' = avg
                /\ state' = next.state
                /\ count' = next.count

\* reset()
SquatPlainResetFields ==
    /\ count' = 0
    /\ state' = Unknown
    /\ landmarks' = <<>>
    /\ lastAvgAngle' = 0
    /\ UNCHANGED <<consecutiveUpFrames, smoothedAngle, smoothedLandmarks, gated, consecutiveDownFrames>>

(***************************************************************************)
(* SquatDetector with up and down debouncing (the revision with            *)
(* consecutiveDownFrames and requiredDownFrames)                           *)
(***************************************************************************)
SquatDebouncedMissing(l) ==
    \E j \in {LEFT_HIP, RIGHT_HIP, LEFT_KNEE, RIGHT_KNEE, LEFT_ANKLE, RIGHT_ANKLE} :
        ~l[j].def

\* avg: the average knee angle
SquatDebouncedAvg(l) ==
    Avg2(calculateAngle(l[LEFT_HIP], l[LEFT_KNEE], l[LEFT_ANKLE]),
         calculateAngle(l[RIGHT_HIP], l[RIGHT_KNEE], l[RIGHT_ANKLE]))

\* (mutant) the first down-frame takes the state from Up to Down
SquatDebouncedSwitchAtOnce(st, cnt, ups, downs, avg, requiredUp, requiredDown) ==
    LET ups1 == IF Gt(avg, upAngleThreshold) THEN ups + 1 ELSE 0
        downs1 == IF Lt(avg, downAngleThreshold) THEN downs + 1 ELSE 0
        stay == [state |-> st, count |-> cnt, consecutiveUpFrames |-> ups1,
                 consecutiveDownFrames |-> downs1]
    IN  CASE st = Unknown ->
               IF ups1 >= requiredUp
               THEN [stay EXCEPT !.state = Up, !.consecutiveUpFrames = 0]
               ELSE IF downs1 >= requiredDown
               THEN [stay EXCEPT !.state = Down, !.consecutiveDownFrames = 0]
               ELSE stay
          [] st = Up ->
               IF downs1 >= 1
               THEN [stay EXCEPT !.state = Down, !.consecutiveDownFrames = 0]
               ELSE stay
          [] st = Down ->
               IF ups1 >= requiredUp
               THEN [stay EXCEPT !.state = Up, !.count = cnt + 1,
                                 !.consecutiveUpFrames = 0]
               ELSE stay

\* the two run counter updates and the switch over the state
SquatDebouncedSwitch(st, cnt, ups, downs, avg, requiredUp, requiredDown) ==
    LET ups1 == IF Gt(avg, upAngleThreshold) THEN ups + 1 ELSE 0
        downs1 == IF Lt(avg, downAngleThreshold) THEN downs + 1 ELSE 0
        stay == [state |-> st, count |-> cnt, consecutiveUpFrames |-> ups1,
                 consecutiveDownFrames |-> downs1]
    IN  CASE st = Unknown ->
               IF ups1 >= requiredUp
               THEN [stay EXCEPT !.state = Up, !.consecutiveUpFrames = 0]
               ELSE IF downs1 >= requiredDown
               THEN [stay EXCEPT !.state = Down, !.consecutiveDownFrames = 0]
               ELSE stay
          [] st = Up ->
               IF downs1 >= requiredDown
               THEN [stay EXCEPT !.state = Down, !.consecutiveDownFrames = 0]
               ELSE stay
          [] st = Down ->
               IF ups1 >= requiredUp
               THEN [stay EXCEPT !.state = Up, !.count = cnt + 1,
                                 !.consecutiveUpFrames = 0]
               ELSE stay

\* processLandmarks(l)
SquatDebouncedProcessLandmarks(l) ==
    /\ UNCHANGED <<smoothedAngle, smoothedLandmarks, gated>>
    /\ IF SquatDebouncedMissing(l)
       THEN UNCHANGED <<state, count, consecutiveUpFrames, lastAvgAngle,
                        consecutiveDownFrames>>
       ELSE \E avg \in {SquatDebouncedAvg(l)} :
            \E next \in {SquatDebouncedSwitch(state, count, consecutiveUpFrames,
                                              consecutiveDownFrames, avg,
                                              requiredUpFrames,
                                              requiredDownFrames)} :
                /\ lastAvgAngle' = avg
                /\ state' = next.state
                /\ count' = next.count
                /\ consecutiveUpFrames' = next.consecutiveUpFrames
                /\ consecutiveDownFrames' = next.consecutiveDownFrames

\* reset()
SquatDebouncedResetFields ==
    /\ count' = 0
    /\ state' = Unknown
    /\ consecutiveUpFrames' = 0
    /\ consecutiveDownFrames' = 0
    /\ landmarks' = <<>>
    /\ lastAvgAngle' = 0
    /\ UNCHANGED <<smoothedAngle, smoothedLandmarks, gated>>

\* the label of a frame of the debounced squat detector, whose frames go by
\* the average knee angle alone
SquatDebouncedLabel(l) ==
    IF SquatDebouncedMissing(l) THEN "skip"
    ELSE CHOOSE lab \in
             {IF avg # NaN /\ avg > 160 THEN "up"
              ELSE IF avg # NaN /\ avg < 100 THEN "down" ELSE "between" :
                  avg \in {SquatDebouncedAvg(l)}} : TRUE

(***************************************************************************)
(* SquatDetector with the visibility gate and the orientation check        *)
(* (the revision with isDown, angleHistory and torsoHistory)               *)
(***************************************************************************)
ANGLE_WINDOW == 5
DOWN_THRESHOLD == 100
UP_THRESHOLD == 160
FRAME_COUNT_THRESHOLD == 3
\* 0.3, in tenths
LEG_VISIBILITY_THRESHOLD == 3
LEG_MISSING_FRAMES == 2
ORIENTATION_CHANGE_THRESHOLD == 15

\* Math.atan2(dy, dx) * 180 / Math.PI, in whole degrees
Atan2Deg(dy, dx) ==
    IF dx = 0 /\ dy = 0 THEN 0
    ELSE IF dy < 0 THEN 0 - AcosDeg(dx, dx * dx + dy * dy)
    ELSE AcosDeg(dx, dx * dx + dy * dy)

\* Math.abs
Abs(n) == IF n < 0 THEN 0 - n ELSE n

\* the sum of a list of angles
RECURSIVE SumAngles(_)
SumAngles(h) ==
    IF h = <<>> THEN 0
    ELSE LET rest == SumAngles(Tail(h))
         IN  IF Head(h) = NaN \/ rest = NaN THEN NaN ELSE Head(h) + rest

\* history.push(v), then shift() when longer than the window
Pushed(h, v) ==
    IF Len(h) + 1 > ANGLE_WINDOW THEN Tail(Append(h, v)) ELSE Append(h, v)

\* the early return of processLandmarks: a required landmark is undefined
SquatGatedMissing(l) ==
    \E j \in {LEFT_HIP, RIGHT_HIP, LEFT_KNEE, RIGHT_KNEE, LEFT_ANKLE, RIGHT_ANKLE,
              LEFT_SHOULDER, RIGHT_SHOULDER} : ~l[j].def

\* legVisible: some leg landmark has visibility above the threshold
legVisible(l) ==
    \E j \in {LEFT_HIP, RIGHT_HIP, LEFT_KNEE, RIGHT_KNEE, LEFT_ANKLE, RIGHT_ANKLE,
              LEFT_FOOT_INDEX, RIGHT_FOOT_INDEX} :
        l[j].def /\ l[j].visibility > LEG_VISIBILITY_THRESHOLD

\* torsoAngle: the direction from the shoulder midpoint to the hip midpoint
torsoAngle(l) ==
    Atan2Deg((l[LEFT_HIP].y + l[RIGHT_HIP].y) - (l[LEFT_SHOULDER].y + l[RIGHT_SHOULDER].y),
             (l[LEFT_HIP].x + l[RIGHT_HIP].x) - (l[LEFT_SHOULDER].x + l[RIGHT_SHOULDER].x))

\* (mutant) the orientation check allows 45 degrees
OrientationChangedFar(h, angle) ==
    /\ h # <<>>
    /\ Abs(angle - h[Len(h)]) > 45

\* the orientation check: the frame is rejected
OrientationChanged(h, angle) ==
    /\ h # <<>>
    /\ Abs(angle - h[Len(h)]) > ORIENTATION_CHANGE_THRESHOLD

\* smoothAngle: the mean of the angle window
smoothAngle(h) ==
    IF SumAngles(h) = NaN THEN NaN ELSE SumAngles(h) \div Len(h)

\* (mutant) a completed repetition is counted twice
SquatGatedStepCountsTwice(downFrames, upFrames, down, cnt, visible) ==
    LET down1 == IF downFrames >= FRAME_COUNT_THRESHOLD /\ ~down /\ visible
                 THEN TRUE ELSE down
    IN  IF upFrames >= FRAME_COUNT_THRESHOLD /\ down1
        THEN [isDown |-> FALSE, count |-> cnt + 2]
        ELSE [isDown |-> down1, count |-> cnt]

\* the two ifs that end processLandmarks
SquatGatedStep(downFrames, upFrames, down, cnt, visible) ==
    LET down1 == IF downFrames >= FRAME_COUNT_THRESHOLD /\ ~down /\ visible
                 THEN TRUE ELSE down
    IN  IF upFrames >= FRAME_COUNT_THRESHOLD /\ down1
        THEN [isDown |-> FALSE, count |-> cnt + 1]
        ELSE [isDown |-> down1, count |-> cnt]

\* (mutant) no frame is skipped for hidden legs
legGateNeverSkips(visible, missed) == FALSE

\* (mutant) the gate tolerates one frame without visible legs
legGateSkipsSecond(visible, missed) == ~visible /\ missed > 1

\* the early return for legs hidden longer than the tolerance; missed is
\* framesBelowVisibility after its update
legGateSkips(visible, missed) == ~visible /\ missed > LEG_MISSING_FRAMES

\* (mutant) a frame rejected for its orientation becomes the reference
SquatGatedFollowsTurn(l) ==
    /\ UNCHANGED <<state, consecutiveUpFrames, lastAvgAngle, smoothedAngle,
                   smoothedLandmarks, consecutiveDownFrames>>
    /\ IF SquatGatedMissing(l)
       THEN UNCHANGED <<count, gated>>
       ELSE \E visible \in {legVisible(l)} :
            /\ framesBelowVisibility' =
                   (IF visible THEN 0 ELSE framesBelowVisibility + 1)
            /\ IF legGateSkips(visible, framesBelowVisibility')
               THEN UNCHANGED <<count, isDown, angleHistory, torsoHistory,
                                downFrameCount, upFrameCount>>
               ELSE \E angle \in {torsoAngle(l)} :
                    IF OrientationChanged(torsoHistory, angle)
                    THEN /\ torsoHistory' = Pushed(torsoHistory, angle)
                         /\ UNCHANGED <<count, isDown, angleHistory,
                                        downFrameCount, upFrameCount>>
                    ELSE /\ torsoHistory' = Pushed(torsoHistory, angle)
                         /\ angleHistory' = Pushed(angleHistory, SquatPlainAvg(l))
                         /\ \E sm \in {smoothAngle(angleHistory')} :
                            /\ downFrameCount' =
                                   (IF Lt(sm, DOWN_THRESHOLD)
                                    THEN downFrameCount + 1 ELSE 0)
                            /\ upFrameCount' =
                                   (IF Gt(sm, UP_THRESHOLD)
                                    THEN upFrameCount + 1 ELSE 0)
                         /\ \E next \in {SquatGatedStep(downFrameCount', upFrameCount',
                                                        isDown, count, visible)} :
                            /\ isDown' = next.isDown
                            /\ count' = next.count

\* processLandmarks(l)
SquatGatedProcessLandmarks(l) ==
    /\ UNCHANGED <<state, consecutiveUpFrames, lastAvgAngle, smoothedAngle,
                   smoothedLandmarks, consecutiveDownFrames>>
    /\ IF SquatGatedMissing(l)
       THEN UNCHANGED <<count, gated, consecutiveDownFrames>>
       ELSE \E visible \in {legVisible(l)} :
            /\ framesBelowVisibility' =
                   (IF visible THEN 0 ELSE framesBelowVisibility + 1)
            /\ IF legGateSkips(visible, framesBelowVisibility')
               THEN UNCHANGED <<count, isDown, angleHistory, torsoHistory,
                                downFrameCount, upFrameCount>>
               ELSE \E angle \in {torsoAngle(l)} :
                    IF OrientationChanged(torsoHistory, angle)
                    THEN UNCHANGED <<count, isDown, angleHistory, torsoHistory,
                                     downFrameCount, upFrameCount>>
                    ELSE /\ torsoHistory' = Pushed(torsoHistory, angle)
                         /\ angleHistory' = Pushed(angleHistory, SquatPlainAvg(l))
                         /\ \E sm \in {smoothAngle(angleHistory')} :
                            /\ downFrameCount' =
                                   (IF Lt(sm, DOWN_THRESHOLD)
                                    THEN downFrameCount + 1 ELSE 0)
                            /\ upFrameCount' =
                                   (IF Gt(sm, UP_THRESHOLD)
                                    THEN upFrameCount + 1 ELSE 0)
                         /\ \E next \in {SquatGatedStep(downFrameCount', upFrameCount',
                                                        isDown, count, visible)} :
                            /\ isDown' = next.isDown
                            /\ count' = next.count

\* the frame gets past the early returns of processLandmarks
SquatGatedAccepted(l) ==
    /\ ~SquatGatedMissing(l)
    /\ ~legGateSkips(legVisible(l), framesBelowVisibility + 1)
    /\ ~OrientationChanged(torsoHistory, torsoAngle(l))

\* reset()
SquatGatedResetFields ==
    /\ count' = 0
    /\ isDown' = FALSE
    /\ landmarks' = <<>>
    /\ angleHistory' = <<>>
    /\ torsoHistory' = <<>>
    /\ framesBelowVisibility' = 0
    /\ downFrameCount' = 0
    /\ upFrameCount' = 0
    /\ UNCHANGED <<state, consecutiveUpFrames, lastAvgAngle, smoothedAngle,
                   smoothedLandmarks, consecutiveDownFrames>>

(***************************************************************************)
(* PushupDetector with the visibility gate (the revision with legSeen)     *)
(***************************************************************************)
\* (mutant) an up-frame needs no visible legs
PushupGatedClassifyBlind(avgAngle, visible) ==
    [isUpFrame |-> Gt(avgAngle, 160), isDownFrame |-> Lt(avgAngle, 100)]

\* isUpFrame and isDownFrame
PushupGatedClassify(avgAngle, visible) ==
    [isUpFrame |-> Gt(avgAngle, 160) /\ visible,
     isDownFrame |-> Lt(avgAngle, 100)]

\* the run counter update and the switch over the state
PushupGatedSwitch(st, cnt, run, seen, isUpFrame, isDownFrame, visible, required) ==
    LET run1 == IF isUpFrame THEN run + 1 ELSE 0
        stay == [state |-> st, count |-> cnt, consecutiveUpFrames |-> run1,
                 legSeen |-> seen]
    IN  CASE st = WaitingForUp ->
               IF isUpFrame /\ run1 >= required
               THEN [stay EXCEPT !.state = Up, !.consecutiveUpFrames = 0]
               ELSE stay
          [] st = Up ->
               IF isDownFrame /\ visible
               THEN [stay EXCEPT !.state = Down, !.legSeen = TRUE]
               ELSE stay
          [] st = Down ->
               IF isUpFrame /\ run1 >= required
               THEN [state |-> Up, count |-> IF seen THEN cnt + 1 ELSE cnt,
                     consecutiveUpFrames |-> 0, legSeen |-> FALSE]
               ELSE stay

\* processLandmarks(l)
PushupGatedProcessLandmarks(l) ==
    /\ UNCHANGED <<lastAvgAngle, smoothedAngle, smoothedLandmarks, isDown,
                   angleHistory, torsoHistory, downFrameCount, upFrameCount,
                   consecutiveDownFrames>>
    /\ IF PushupMissing(l)
       THEN UNCHANGED <<state, count, consecutiveUpFrames,
                        framesBelowVisibility, legSeen>>
       ELSE \E visible \in {legVisible(l)} :
            /\ framesBelowVisibility' =
                   (IF visible THEN 0 ELSE framesBelowVisibility + 1)
            /\ IF legGateSkips(visible, framesBelowVisibility')
               THEN UNCHANGED <<state, count, consecutiveUpFrames, legSeen>>
               ELSE \E avgAngle \in
                        {Avg2(calculateAngle(l[LEFT_SHOULDER], l[LEFT_ELBOW],
                                             l[LEFT_WRIST]),
                              calculateAngle(l[RIGHT_SHOULDER], l[RIGHT_ELBOW],
                                             l[RIGHT_WRIST]))} :
                    \E loc \in {PushupGatedClassify(avgAngle, visible)} :
                    \E next \in {PushupGatedSwitch(state, count,
                                     consecutiveUpFrames, legSeen,
                                     loc.isUpFrame, loc.isDownFrame, visible,
                                     requiredUpFrames)} :
                        /\ state' = next.state
                        /\ count' = next.count
                        /\ consecutiveUpFrames' = next.consecutiveUpFrames
                        /\ legSeen' = next.legSeen

(***************************************************************************)
(* PushupDetector with landmark smoothing (the revision with               *)
(* smoothedLandmarks and smoothingFactor)                                  *)
(***************************************************************************)
\* A landmark list of length n is a function on the joints below n: an index
\* outside its DOMAIN reads as undefined.
Shortened(l, n) == [j \in {i \in DOMAIN l : i < n} |-> l[j]]

\* { ...undefined }: an object without coordinates
EmptyObject == [def |-> TRUE, x |-> NaN, y |-> NaN, z |-> NaN, visibility |-> NaN]

\* lms.map((p) => ({ ...p }))
CopyOf(lms) == [j \in DOMAIN lms |-> IF lms[j].def THEN lms[j] ELSE EmptyObject]

\* visibility ?? 0.5, in tenths
VisibilityOr(v) == IF v = NaN THEN 5 ELSE v

\* one round of the loop of smooth
BlendLandmark(before, cur) ==
    [def |-> TRUE,
     x |-> Blend(before.x, cur.x),
     y |-> Blend(before.y, cur.y),
     z |-> Blend(before.z, cur.z),
     visibility |-> Blend(VisibilityOr(before.visibility),
                          VisibilityOr(cur.visibility))]

\* the indices at which the loop of smooth reads a property of undefined
\* (prev or cur) and throws a TypeError
SmoothFaults(buf, lms) ==
    {j \in DOMAIN lms : j \notin DOMAIN buf \/ ~lms[j].def}

\* smooth(lms) with this.smoothedLandmarks = buffer: whether it throws, and
\* the buffer it leaves (the rounds before the throw have been done)
PushupSmoothed(buffer, lms) ==
    IF buffer = <<>>
    THEN [threw |-> FALSE, buffer |-> CopyOf(lms)]
    ELSE LET buf == buffer[1]
             faults == SmoothFaults(buf, lms)
             done == {j \in DOMAIN lms : \A f \in faults : j < f}
         IN  [threw |-> faults # {},
              buffer |-> [j \in DOMAIN buf |->
                             IF j \in done THEN BlendLandmark(buf[j], lms[j])
                             ELSE buf[j]]]

\* the early return of processLandmarks: a required entry of the smoothed
\* list is undefined
PushupSmoothMissing(sm) ==
    \E j \in {LEFT_SHOULDER, LEFT_ELBOW, LEFT_WRIST,
              RIGHT_SHOULDER, RIGHT_ELBOW, RIGHT_WRIST} : j \notin DOMAIN sm

\* calculateAngle on landmarks whose coordinates may be undefined
AngleOrNaN(a, b, c) ==
    IF \E v \in {a.x, a.y, b.x, b.y, c.x, c.y} : v = NaN
    THEN NaN
    ELSE calculateAngle(a, b, c)

\* isUpFrame and isDownFrame: a down-frame goes by the shoulders alone
PushupSmoothClassify(sm, leftAngle, rightAngle) ==
    LET shouldersAboveElbows ==
            /\ Lt(sm[LEFT_SHOULDER].y, sm[LEFT_ELBOW].y)
            /\ Lt(sm[RIGHT_SHOULDER].y, sm[RIGHT_ELBOW].y)
        shouldersBelowElbows ==
            /\ Gt(sm[LEFT_SHOULDER].y, sm[LEFT_ELBOW].y)
            /\ Gt(sm[RIGHT_SHOULDER].y, sm[RIGHT_ELBOW].y)
    IN  [avgAngle |-> Avg2(leftAngle, rightAngle),
         isUpFrame |-> shouldersAboveElbows /\ armsStraight(leftAngle, rightAngle),
         isDownFrame |-> shouldersBelowElbows]

\* the locals of processLandmarks for a smoothed list with the required entries
PushupSmoothLocals(sm) ==
    LET angles == <<AngleOrNaN(sm[LEFT_SHOULDER], sm[LEFT_ELBOW], sm[LEFT_WRIST]),
                    AngleOrNaN(sm[RIGHT_SHOULDER], sm[RIGHT_ELBOW], sm[RIGHT_WRIST])>>
    IN  CHOOSE loc \in {PushupSmoothClassify(sm, a[1], a[2]) : a \in {angles}} : TRUE

\* the callback's assignment of this.landmarks, then processLandmarks(l)
PushupSmoothProcessLandmarks(l) ==
    /\ UNCHANGED <<gated, consecutiveDownFrames>>
    /\ \E r \in {PushupSmoothed(smoothedLandmarks, l)} :
        /\ smoothedLandmarks' = <<r.buffer>>
        /\ IF r.threw
           THEN landmarks' = <<l>> /\ UNCHANGED machine
           ELSE /\ landmarks' = smoothedLandmarks'
                /\ IF PushupSmoothMissing(r.buffer)
                   THEN UNCHANGED machine
                   ELSE \E loc \in {PushupSmoothLocals(r.buffer)} :
                        \E next \in {PushupSwitch(state, count, consecutiveUpFrames,
                                                  loc.isUpFrame, loc.isDownFrame,
                                                  requiredUpFrames)} :
                            /\ smoothedAngle' = Blend(smoothedAngle, loc.avgAngle)
                            /\ lastAvgAngle' = smoothedAngle'
                            /\ state' = next.state
                            /\ count' = next.count
                            /\ consecutiveUpFrames' = next.consecutiveUpFrames

\* reset()
PushupSmoothResetFields ==
    /\ count' = 0
    /\ state' = Unknown
    /\ consecutiveUpFrames' = 0
    /\ landmarks' = <<>>
    /\ smoothedLandmarks' = <<>>
    /\ lastAvgAngle' = 0
    /\ smoothedAngle' = 0
    /\ UNCHANGED <<gated, consecutiveDownFrames>>

\* PoseUp170 cut off before the wrists
PoseUpShort == Shortened(PoseUp170, LEFT_WRIST)

PushupSmoothPoses == {PoseUp170, PoseDown90, PoseNoWrists, PoseUpShort}

(***************************************************************************)
(* What a frame is, read off its landmarks (for the history variables)     *)
(***************************************************************************)
\* "skip": a required landmark is undefined; "up": both joint angles above
\* the up threshold, proximal joints above the medial ones; "down": both
\* angles below the down threshold, proximal joints below; "mid": both
\* angles strictly between the thresholds; "other": anything else
LabelOf(left, right, above, below) ==
    LET num == left # NaN /\ right # NaN
    IN  CASE num /\ left > 160 /\ right > 160 /\ above -> "up"
          [] num /\ left < 100 /\ right < 100 /\ below -> "down"
          [] num /\ left > 100 /\ left < 160 /\ right > 100 /\ right < 160 -> "mid"
          [] OTHER -> "other"

\* the label of the frame with joints a-b-c on the left and d-e-f on the right
FrameLabel(missing, a, b, c, d, e, f) ==
    IF missing THEN "skip"
    ELSE CHOOSE lab \in
             {LabelOf(an[1], an[2], a.y < b.y /\ d.y < e.y, a.y > b.y /\ d.y > e.y) :
                  an \in {<<calculateAngle(a, b, c), calculateAngle(d, e, f)>>}} : TRUE

\* the label of an elbow frame
PushupLabel(l) ==
    FrameLabel(PushupMissing(l),
               l[LEFT_SHOULDER], l[LEFT_ELBOW], l[LEFT_WRIST],
               l[RIGHT_SHOULDER], l[RIGHT_ELBOW], l[RIGHT_WRIST])

\* the label of a knee frame
SquatLabel(l, missing) ==
    FrameLabel(missing,
               l[LEFT_HIP], l[LEFT_KNEE], l[LEFT_ANKLE],
               l[RIGHT_HIP], l[RIGHT_KNEE], l[RIGHT_ANKLE])

\* the label of a frame of the smoothing squat detector, whose down-frames go
\* by the hip/knee ordering alone: "between" is neither up nor down
OrderingLabelOf(left, right, above, below) ==
    CASE left # NaN /\ right # NaN /\ left > 160 /\ right > 160 /\ above -> "up"
      [] below -> "down"
      [] OTHER -> "between"

SquatOrderingLabel(l) ==
    IF SquatMissing(l) THEN "skip"
    ELSE CHOOSE lab \in
             {OrderingLabelOf(an[1], an[2],
                              l[LEFT_HIP].y < l[LEFT_KNEE].y /\ l[RIGHT_HIP].y < l[RIGHT_KNEE].y,
                              l[LEFT_HIP].y > l[LEFT_KNEE].y /\ l[RIGHT_HIP].y > l[RIGHT_KNEE].y) :
                  an \in {<<calculateAngle(l[LEFT_HIP], l[LEFT_KNEE], l[LEFT_ANKLE]),
                            calculateAngle(l[RIGHT_HIP], l[RIGHT_KNEE], l[RIGHT_ANKLE])>>}} :
             TRUE

\* the label of a frame of the smoothing push-up detector: "threw" when
\* smooth threw, "skip" when a required entry is undefined
PushupSmoothLabel(r) ==
    CASE r.threw -> "threw"
      [] PushupSmoothMissing(r.buffer) -> "skip"
      [] OTHER ->
           CHOOSE lab \in
               {IF loc.isUpFrame THEN "up"
                ELSE IF loc.isDownFrame THEN "down" ELSE "between" :
                    loc \in {PushupSmoothLocals(r.buffer)}} : TRUE

\* the history counts runs of up-frames up to here, one more than any
\* requiredUpFrames
RunCap == MaxRequired + 1
Capped(n) == IF n > RunCap THEN RunCap ELSE n

\* the history of a processed frame with label lab
Watch(lab) ==
    LET quiet == lab \in {"none", "skip", "threw"}
    IN  /\ lastLabel' = lab
        /\ firstFrame' = (~quiet /\ phase = "start")
        /\ sameRun' = IF quiet \/ impl # "SquatDebounced" THEN sameRun
                      ELSE [label |-> lab,
                            length |-> IF sameRun.label = lab
                                       THEN Capped(sameRun.length + 1) ELSE 1]
        /\ upRun' = CASE quiet -> upRun
                      [] lab = "up" -> IF upRun >= 0 THEN Capped(upRun + 1) ELSE upRun
                      [] OTHER -> IF state' = Down THEN 0 ELSE -1
        /\ runBase' = CASE quiet \/ lab = "up" -> runBase
                        [] OTHER -> IF state' = Down THEN count' ELSE 0
        /\ enteredDown' = CASE quiet \/ lab = "up" -> enteredDown
                            [] OTHER -> state' = Down /\ state # Down
        /\ phase' = CASE quiet -> phase
                      [] lab = "up" /\ phase \in {"start", "up"} -> "up"
                      [] lab = "up" /\ phase \in {"down", "final"} -> "final"
                      [] lab = "down" /\ phase \in {"up", "down"} -> "down"
                      [] lab = "mid" /\ phase \in {"start", "mid"} -> "mid"
                      [] lab = "between" /\ phase \in {"up", "down"} -> phase
                      [] OTHER -> "off"
        /\ phaseUps' = CASE quiet -> phaseUps
                         [] lab = "up" /\ phase \in {"down", "final"} ->
                              Capped(phaseUps + 1)
                         [] OTHER -> 0
        /\ upAfterDown' = (upAfterDown \/ (lab = "up" /\ state = Down))

\* some hip, knee, ankle or foot landmark of l is more than 0.3 visible
ShowsLegs(l) ==
    \E j \in {LEFT_HIP, RIGHT_HIP, LEFT_KNEE, RIGHT_KNEE, LEFT_ANKLE, RIGHT_ANKLE,
              LEFT_FOOT_INDEX, RIGHT_FOOT_INDEX} :
        j \in DOMAIN l /\ l[j].def /\ l[j].visibility * 10 > 30

\* isDown and count of the visibility-gated squat detector, for a frame
\* without visible legs that follows a frame with them, as they would be
\* had the legs been visible, and so on for the visible frame after it
Shadowed(results) ==
    IF impl # "SquatGated" \/ results.poseLandmarks = <<>>
    THEN UNCHANGED <<sandwich, shadow>>
    ELSE \E l \in {results.poseLandmarks[1]} :
         \E accepted \in {SquatGatedAccepted(l)} :
         \E visible \in {ShowsLegs(l)} :
             CASE accepted /\ ~visible /\ framesBelowVisibility = 0 ->
                    /\ sandwich' = "missed"
                    /\ shadow' = SquatGatedStep(downFrameCount', upFrameCount',
                                                isDown, count, TRUE)
               [] accepted /\ visible /\ sandwich = "missed" ->
                    /\ sandwich' = "closed"
                    /\ shadow' = SquatGatedStep(downFrameCount', upFrameCount',
                                                shadow.isDown, shadow.count, TRUE)
               [] OTHER ->
                    /\ sandwich' = "none"
                    /\ shadow' = [isDown |-> isDown', count |-> count']

\* the run of frames without visible legs, counted over the frames of the
\* visibility-gated squat detector that have every required landmark, and
\* whether the last of them was let through by the gate
Gatekeeping(results) ==
    IF impl # "SquatGated" \/ results.poseLandmarks = <<>>
    THEN gatePassed' = FALSE /\ UNCHANGED hiddenRun
    ELSE \E l \in {results.poseLandmarks[1]} :
         IF SquatGatedMissing(l)
         THEN gatePassed' = FALSE /\ UNCHANGED hiddenRun
         ELSE /\ hiddenRun' = (IF ShowsLegs(l) THEN 0 ELSE Capped(hiddenRun + 1))
              /\ gatePassed' = ~legGateSkips(legVisible(l), framesBelowVisibility')

\* no orientation has been accepted
NoTurn == [reference |-> <<>>, run |-> 0, count |-> 0, isDown |-> FALSE]
\* the orientation of the last frame of the visibility-gated squat detector
\* that had every landmark, got past the gate and was within 15 degrees of
\* the orientation before it, and the frames turned away from it since
Turning(results) ==
    IF impl # "SquatGated" \/ results.poseLandmarks = <<>>
    THEN UNCHANGED turn
    ELSE \E l \in {results.poseLandmarks[1]} :
         IF SquatGatedMissing(l)
         THEN UNCHANGED turn
         ELSE \E angle \in {torsoAngle(l)} :
              \E away \in {/\ turn.reference # <<>>
                           /\ \/ angle - turn.reference[1] > 15
                              \/ turn.reference[1] - angle > 15} :
                  turn' = CASE away /\ turn.run = 0 ->
                                 [turn EXCEPT !.run = 1, !.count = count,
                                              !.isDown = isDown]
                            [] away /\ turn.run > 0 ->
                                 [turn EXCEPT !.run = Capped(@ + 1)]
                            [] ~away /\ gatePassed' ->
                                 [NoTurn EXCEPT !.reference = <<angle>>]
                            [] OTHER -> [NoTurn EXCEPT !.reference = turn.reference]

\* whether PushupDetector has processed a frame one of whose elbow angles
\* is undefined
Poisoning(results) ==
    IF impl # "PushupDetector" \/ results.poseLandmarks = <<>>
    THEN UNCHANGED poisoned
    ELSE \E l \in {results.poseLandmarks[1]} :
         poisoned' =
             \/ poisoned
             \/ /\ ~PushupMissing(l)
                /\ \/ calculateAngle(l[LEFT_SHOULDER], l[LEFT_ELBOW],
                                      l[LEFT_WRIST]) = NaN
                   \/ calculateAngle(l[RIGHT_SHOULDER], l[RIGHT_ELBOW],
                                      l[RIGHT_WRIST]) = NaN

\* the history after reset()
WatchReset ==
    /\ hiddenRun' = 0
    /\ turn' = NoTurn
    /\ poisoned' = FALSE
    /\ gatePassed' = FALSE
    /\ firstFrame' = FALSE
    /\ sameRun' = [label |-> "none", length |-> 0]
    /\ sandwich' = "none"
    /\ shadow' = [isDown |-> FALSE, count |-> 0]
    /\ lastLabel' = "none"
    /\ upRun' = -1
    /\ runBase' = 0
    /\ enteredDown' = FALSE
    /\ phase' = "start"
    /\ phaseUps' = 0
    /\ upAfterDown' = FALSE

\* the history after the constructor
WatchStart ==
    /\ hiddenRun = 0
    /\ turn = NoTurn
    /\ poisoned = FALSE
    /\ gatePassed = FALSE
    /\ firstFrame = FALSE
    /\ sameRun = [label |-> "none", length |-> 0]
    /\ sandwich = "none"
    /\ shadow = [isDown |-> FALSE, count |-> 0]
    /\ lastLabel = "none"
    /\ upRun = -1
    /\ runBase = 0
    /\ enteredDown = FALSE
    /\ phase = "start"
    /\ phaseUps = 0
    /\ upAfterDown = FALSE

(***************************************************************************)
(* The detector instance                                                   *)
(***************************************************************************)
\* the counters stay within the bounds of the model
WithinBounds ==
    /\ count' <= MaxCount
    /\ consecutiveUpFrames' <= MaxRun
    /\ framesBelowVisibility' <= MaxRun
    /\ downFrameCount' <= MaxRun
    /\ upFrameCount' <= MaxRun
    /\ consecutiveDownFrames' <= MaxRun

\* the Results a revision is fed
ResultsOf(i) ==
    {NoLandmarks} \cup
    CASE i = "PushupDetector" -> {WithLandmarks(l) : l \in PushupPoses}
      [] i = "SquatSmooth" -> {WithLandmarks(l) : l \in SquatSmoothPoses}
      [] i = "SquatPlain" -> {WithLandmarks(l) : l \in SquatPlainPoses}
      [] i = "SquatGated" -> {WithLandmarks(l) : l \in SquatVisibilityPoses}
      [] i = "PushupSmooth" -> {WithLandmarks(l) : l \in PushupSmoothPoses}
      [] i = "SquatDebounced" -> {WithLandmarks(l) : l \in SquatPlainPoses}
      [] i = "PushupGated" -> {WithLandmarks(l) : l \in PushupGatedPoses}

\* field initialisers and constructor
InitFields ==
    /\ state = (IF impl = "PushupGated" THEN WaitingForUp ELSE Unknown)
    /\ legSeen = FALSE
    /\ count = 0
    /\ consecutiveUpFrames = 0
    /\ lastAvgAngle = 0
    /\ smoothedAngle = 0
    /\ landmarks = <<>>
    /\ isInitialized = FALSE
    /\ smoothedLandmarks = <<>>
    /\ isDown = FALSE
    /\ angleHistory = <<>>
    /\ torsoHistory = <<>>
    /\ framesBelowVisibility = 0
    /\ downFrameCount = 0
    /\ upFrameCount = 0
    /\ consecutiveDownFrames = 0

InitHistory ==
    /\ lastOp = "constructor"
    /\ lastResults = NoLandmarks
    /\ prev = Snapshot
    /\ WatchStart

\* the callback given to pose.onResults
OnResults(results) ==
    /\ lastOp' = "onResults"
    /\ lastResults' = results
    /\ prev' = Snapshot
    /\ UNCHANGED <<impl, requiredUpFrames, requiredDownFrames>>
    /\ IF results.poseLandmarks = <<>>
       THEN UNCHANGED fields /\ Watch("none")
       ELSE \E l \in {results.poseLandmarks[1]} :
            /\ isInitialized' = TRUE
            /\ IF impl = "PushupGated" THEN TRUE ELSE UNCHANGED legSeen
            /\ CASE impl = "PushupDetector" ->
                     /\ landmarks' = <<l>>
                     /\ PushupProcessLandmarks(l)
                     /\ UNCHANGED <<smoothedLandmarks, gated, consecutiveDownFrames>>
                     /\ \E lab \in {PushupLabel(l)} : Watch(lab)
                 [] impl = "SquatSmooth" ->
                     /\ SquatSmoothProcessLandmarks(l)
                     /\ \E lab \in {SquatOrderingLabel(smoothedLandmarks'[1])} :
                            Watch(lab)
                 [] impl = "SquatPlain" ->
                     /\ landmarks' = <<l>>
                     /\ SquatPlainProcessLandmarks(l)
                     /\ \E lab \in {SquatLabel(l, SquatMissing(l))} : Watch(lab)
                 [] impl = "SquatGated" ->
                     /\ landmarks' = <<l>>
                     /\ SquatGatedProcessLandmarks(l)
                     /\ \E lab \in {SquatLabel(l, SquatGatedMissing(l))} : Watch(lab)
                 [] impl = "SquatDebounced" ->
                     /\ landmarks' = <<l>>
                     /\ SquatDebouncedProcessLandmarks(l)
                     /\ \E lab \in {SquatDebouncedLabel(l)} : Watch(lab)
                 [] impl = "PushupGated" ->
                     /\ landmarks' = <<l>>
                     /\ PushupGatedProcessLandmarks(l)
                     /\ \E lab \in {PushupLabel(l)} : Watch(lab)
                 [] impl = "PushupSmooth" ->
                     /\ PushupSmoothProcessLandmarks(l)
                     /\ \E lab \in {PushupSmoothLabel(
                                        PushupSmoothed(smoothedLandmarks, l))} :
                            Watch(lab)
            /\ WithinBounds
    /\ Shadowed(results)
    /\ Gatekeeping(results)
    /\ Poisoning(results)
    /\ Turning(results)

\* (mutant) reset() also clears isInitialized
ResetForgetsReady ==
    /\ lastOp' = "reset"
    /\ lastResults' = NoLandmarks
    /\ prev' = Snapshot
    /\ WatchReset
    /\ isInitialized' = FALSE
    /\ UNCHANGED <<impl, requiredUpFrames, requiredDownFrames, legSeen, lifecycle,
                   outside>>
    /\ CASE impl = "PushupDetector" ->
             PushupResetFields /\ UNCHANGED <<smoothedLandmarks, gated, consecutiveDownFrames>>
         [] impl = "SquatSmooth" -> SquatSmoothResetFields
         [] impl = "SquatPlain" -> SquatPlainResetFields
         [] impl = "SquatGated" -> SquatGatedResetFields
         [] impl = "PushupSmooth" -> PushupSmoothResetFields
         [] impl = "SquatDebounced" -> SquatDebouncedResetFields

\* reset()
Reset ==
    /\ lastOp' = "reset"
    /\ lastResults' = NoLandmarks
    /\ prev' = Snapshot
    /\ WatchReset
    /\ UNCHANGED <<impl, requiredUpFrames, requiredDownFrames, isInitialized, legSeen,
                   lifecycle, outside>>
    /\ CASE impl = "PushupDetector" ->
             PushupResetFields /\ UNCHANGED <<smoothedLandmarks, gated, consecutiveDownFrames>>
         [] impl = "SquatSmooth" -> SquatSmoothResetFields
         [] impl = "SquatPlain" -> SquatPlainResetFields
         [] impl = "SquatGated" -> SquatGatedResetFields
         [] impl = "PushupSmooth" -> PushupSmoothResetFields
         [] impl = "SquatDebounced" -> SquatDebouncedResetFields

\* most animate loops of PushupTracker alive at a time
MaxLoops == 3

\* the PushupTracker component before it is mounted
NotMounted ==
    /\ mounted = "no"
    /\ loopWanted = FALSE
    /\ loopPc = [k \in 1..MaxLoops |-> "idle"]
    /\ animationRef = 0
    /\ cleanupCalls = [pushup |-> 0, squat |-> 0]

\* a detector the component holds, as the constructor or reset() leaves it
Fresh == [count |-> 0, fresh |-> TRUE]
Unused == [pushup |-> Fresh, squat |-> Fresh]
\* the session controls of PushupTracker after its first render
ControlsIdle ==
    /\ cameraEnabled = FALSE
    /\ videoReady = FALSE
    /\ status = "ready"
    /\ isTracking = FALSE
    /\ trackerCount = 0
    /\ squatCount = 0
    /\ selectedExercise = "pushup"
    /\ sessionTime = 0
    /\ startTimeRef = 0
    /\ counted = [pushup |-> Fresh, squat |-> Fresh]
    /\ inflight = <<>>
    /\ completed = <<>>
    /\ handler = "none"
    /\ resetFrom = Unused
    /\ requested = 0
    /\ stopped = FALSE

\* the e-mail addresses that sign up
AlMail == <<"a", "l", "@", "x">>
BobMail == <<"b", "@", "x">>
Emails == {AlMail, BobMail}
\* nobody has signed up, the table sessions is empty and has both columns
NoCall == [name |-> "", email |-> <<>>, username |-> <<>>, threw |-> FALSE]
NoServer ==
    /\ users = [email \in Emails |-> <<>>]
    /\ sessionRows = <<>>
    /\ columns = {"user_id", "username"}
    /\ lastCall = NoCall

\* no community session is stored and no highscore was computed
NoResult ==
    [called |-> FALSE, period |-> "day", exercise |-> "pushup",
     scores |-> <<>>, total |-> 0]
NoCommunity ==
    /\ sessions = <<>>
    /\ now = 31
    /\ highscores = NoResult
    /\ NoServer

PoseResult ==
    \E results \in ResultsOf(impl) :
        OnResults(results) /\ UNCHANGED <<lifecycle, outside>>

\* initPose() has completed and no detect() call is in progress
PoseLoaded ==
    /\ poseInit = "fulfilled"
    /\ pose = "set"
    /\ hooked = TRUE
    /\ call = [pc |-> "none", value |-> 0]
    /\ crossed = FALSE
    /\ cleaned = FALSE
    /\ initCalls = 1

\* a detector of revision i, constructed with one of the values required
Constructed(i, required) ==
    /\ impl = i
    /\ requiredUpFrames \in required
    /\ requiredDownFrames = 1
    /\ InitFields
    /\ InitHistory
    /\ PoseLoaded
    /\ NotMounted
    /\ ControlsIdle
    /\ NoCommunity

\* one PushupDetector of src/lib/PushupDetector.ts
InitPushup == Constructed("PushupDetector", 1..MaxRequired)
\* one SquatDetector with landmark smoothing
InitSquatSmooth == Constructed("SquatSmooth", 1..MaxRequired)
\* one SquatDetector without debouncing (it takes no constructor argument)
InitSquatPlain == Constructed("SquatPlain", {1})
\* one SquatDetector with the visibility gate (no constructor argument)
InitSquatGated == Constructed("SquatGated", {1})

Next == PoseResult \/ Reset

SpecPushup == InitPushup /\ [][Next]_vars
SpecSquatSmooth == InitSquatSmooth /\ [][Next]_vars
SpecSquatPlain == InitSquatPlain /\ [][Next]_vars
SpecSquatGated == InitSquatGated /\ [][Next]_vars

\* one PushupDetector with landmark smoothing
InitPushupSmooth == Constructed("PushupSmooth", 1..MaxRequired)
SpecPushupSmooth == InitPushupSmooth /\ [][Next]_vars

\* one PushupDetector with the visibility gate, fed pose results
InitPushupGated == Constructed("PushupGated", 1..MaxRequired)
NextPushupGated == PoseResult
SpecPushupGated == InitPushupGated /\ [][NextPushupGated]_vars

\* one SquatDetector with up and down debouncing
InitSquatDebounced ==
    /\ impl = "SquatDebounced"
    /\ requiredUpFrames \in 1..MaxRequired
    /\ requiredDownFrames \in 1..MaxRequired
    /\ InitFields
    /\ InitHistory
    /\ PoseLoaded
    /\ NotMounted
    /\ ControlsIdle
    /\ NoCommunity
SpecSquatDebounced == InitSquatDebounced /\ [][Next]_vars

\* one detector of either revision that smooths the landmarks
InitSmoothing == InitPushupSmooth \/ InitSquatSmooth
SpecSmoothing == InitSmoothing /\ [][Next]_vars

\* one detector of any of the four revisions
InitDetectors == InitPushup \/ InitSquatSmooth \/ InitSquatPlain \/ InitSquatGated
Spec == InitDetectors /\ [][Next]_vars

(***************************************************************************)
(* initPose(), detect() and cleanup() of PushupDetector                    *)
(***************************************************************************)
\* largest requiredUpFrames of the detector whose pose source is modelled
MaxRequiredLoaded == 2

\* what the pose source delivers for a frame
SentResults ==
    {NoLandmarks, WithLandmarks(PoseUp170), WithLandmarks(PoseDown90)}

\* the history of an operation that is neither a pose result nor reset()
Noted(op) ==
    /\ lastOp' = op
    /\ lastResults' = NoLandmarks
    /\ prev' = Snapshot
    /\ UNCHANGED <<lastLabel, upRun, runBase, enteredDown, phase, phaseUps,
                   upAfterDown, sandwich, shadow, sameRun, firstFrame,
                   poisoned, turn, hiddenRun,
                   gatePassed>>

\* initPose() runs to its end: this.pose is set and the callback registered
InitPoseCompletes ==
    /\ poseInit = "pending"
    /\ poseInit' = "fulfilled"
    /\ pose' = "set"
    /\ hooked' = TRUE
    /\ Noted("initPose")
    /\ UNCHANGED outside
    /\ UNCHANGED <<impl, requiredUpFrames, requiredDownFrames, fields, call, crossed, cleaned,
                   initCalls>>

\* initPose() throws: before this.pose is assigned (the import fails, no Pose
\* constructor, the constructor throws) or after it (setOptions throws)
InitPoseThrows ==
    /\ poseInit = "pending"
    /\ poseInit' = "rejected"
    /\ pose' \in {"null", "set"}
    /\ hooked' = FALSE
    /\ Noted("initPoseThrows")
    /\ UNCHANGED outside
    /\ UNCHANGED <<impl, requiredUpFrames, requiredDownFrames, fields, call, crossed, cleaned,
                   initCalls>>

\* detect(videoElement) is called and waits for initPromise
Detect ==
    /\ call.pc \in {"none", "resolved", "rejected"}
    /\ call' = [pc |-> "awaitInit", value |-> 0]
    /\ crossed' = FALSE
    /\ Noted("detect")
    /\ UNCHANGED outside
    /\ UNCHANGED <<impl, requiredUpFrames, requiredDownFrames, fields, poseInit, pose, hooked,
                   cleaned, initCalls>>

\* (mutant) detect() calls initPose() again when the first call failed
DetectRetriesInit(init, p, cnt) ==
    CASE init = "rejected" -> [pc |-> "awaitInit", value |-> 0, initPose |-> TRUE]
      [] p = "null" -> [pc |-> "resolved", value |-> cnt, initPose |-> FALSE]
      [] OTHER -> [pc |-> "awaitSend", value |-> 0, initPose |-> FALSE]

\* detect() after `await this.initPromise': the await rethrows a rejection,
\* a null pose returns the count, otherwise the frame is sent (in both
\* branches of the isInitialized test); initPose is not called
DetectAfterInit(init, p, cnt) ==
    CASE init = "rejected" -> [pc |-> "rejected", value |-> 0, initPose |-> FALSE]
      [] p = "null" -> [pc |-> "resolved", value |-> cnt, initPose |-> FALSE]
      [] OTHER -> [pc |-> "awaitSend", value |-> 0, initPose |-> FALSE]

DetectResumes ==
    /\ call.pc = "awaitInit"
    /\ poseInit # "pending"
    /\ \E next \in {DetectAfterInit(poseInit, pose, count)} :
        /\ call' = [pc |-> next.pc, value |-> next.value]
        /\ poseInit' = IF next.initPose THEN "pending" ELSE poseInit
        /\ initCalls' = IF next.initPose THEN initCalls + 1 ELSE initCalls
    /\ initCalls' <= 2
    /\ Noted("detectResumes")
    /\ UNCHANGED outside
    /\ UNCHANGED <<impl, requiredUpFrames, requiredDownFrames, fields, pose, hooked, crossed, cleaned>>

\* the pose source calls the callback for the frame sent, then fulfils send()
SendDelivers ==
    /\ call.pc = "awaitSend"
    /\ hooked
    /\ \E results \in SentResults : OnResults(results)
    /\ call' = [pc |-> "sendDone", value |-> 0]
    /\ UNCHANGED <<poseInit, pose, hooked, crossed, cleaned, initCalls, outside>>

\* `await this.pose.send(...)' with send() rejected: nothing catches it
SendRejected(cnt) == [pc |-> "rejected", value |-> 0]

\* the pose source fails on the frame: send() rejects or throws
SendFails ==
    /\ call.pc = "awaitSend"
    /\ call' = SendRejected(count)
    /\ Noted("sendFails")
    /\ UNCHANGED outside
    /\ UNCHANGED <<impl, requiredUpFrames, requiredDownFrames, fields, poseInit, pose, hooked, crossed,
                   cleaned, initCalls>>

\* detect() after `await this.pose.send(...)': return this.count
DetectReturns ==
    /\ call.pc = "sendDone"
    /\ call' = [pc |-> "resolved", value |-> count]
    /\ Noted("detectReturns")
    /\ UNCHANGED outside
    /\ UNCHANGED <<impl, requiredUpFrames, requiredDownFrames, fields, poseInit, pose, hooked, crossed,
                   cleaned, initCalls>>

\* isReady()
isReady == isInitialized

\* cleanup(): pose.reset() when there is a pose; no field is assigned
Cleanup ==
    /\ cleaned' = TRUE
    /\ crossed' = (call.pc = "awaitSend")
    /\ Noted("cleanup")
    /\ UNCHANGED outside
    /\ UNCHANGED <<impl, requiredUpFrames, requiredDownFrames, fields, poseInit, pose, hooked, call,
                   initCalls>>

\* new PushupDetector(required): initPose() has been called and is pending
InitLoading ==
    /\ impl = "PushupDetector"
    /\ requiredUpFrames \in 1..MaxRequiredLoaded
    /\ requiredDownFrames = 1
    /\ InitFields
    /\ InitHistory
    /\ poseInit = "pending"
    /\ pose = "null"
    /\ hooked = FALSE
    /\ call = [pc |-> "none", value |-> 0]
    /\ crossed = FALSE
    /\ cleaned = FALSE
    /\ initCalls = 1
    /\ NotMounted
    /\ ControlsIdle
    /\ NoCommunity

NextLoading ==
    \/ InitPoseCompletes
    \/ InitPoseThrows
    \/ Detect
    \/ DetectResumes
    \/ SendDelivers
    \/ SendFails
    \/ DetectReturns
    \/ Cleanup
    \/ Reset

SpecLoading == InitLoading /\ [][NextLoading]_vars

(***************************************************************************)
(* The PushupTracker component: its detectors and its animation loop       *)
(***************************************************************************)
\* the two detectors and their pose sources
detectors == <<impl, requiredUpFrames, requiredDownFrames, fields, history, lifecycle>>

\* cancelAnimationFrame(animationRef.current): the request animationRef names
\* is dropped if it has not fired yet
cancelAnimationFrame(loops, ref) ==
    IF ref # 0 /\ loops[ref] = "scheduled"
    THEN [loops EXCEPT ![ref] = "idle"]
    ELSE loops

\* the component is mounted: both detectors are created; cameraEnabled is
\* false, so the animation effect starts no loop
Mount ==
    /\ mounted = "no"
    /\ mounted' = "mounted"
    /\ UNCHANGED <<loopWanted, loopPc, animationRef, cleanupCalls, detectors, community, controls>>

\* a dependency of the animation effect changes (cameraEnabled, isTracking,
\* videoReady, videoDimensions, selectedExercise): its cleanup runs, then
\* the effect, which starts a loop if the camera and the video are ready
AnimationEffectRuns ==
    /\ mounted = "mounted"
    /\ \E wanted \in BOOLEAN :
       \E cancelled \in {cancelAnimationFrame(loopPc, animationRef)} :
           /\ loopWanted' = wanted
           /\ IF wanted
              THEN \E k \in 1..MaxLoops :
                       /\ cancelled[k] = "idle"
                       /\ \A j \in 1..(k - 1) : cancelled[j] # "idle"
                       /\ loopPc' = [cancelled EXCEPT ![k] = "scheduled"]
                       /\ animationRef' = k
              ELSE loopPc' = cancelled /\ UNCHANGED animationRef
    /\ UNCHANGED <<mounted, cleanupCalls, detectors, community, controls>>

\* the animation frame of loop k fires: animate() calls detect() on the
\* push-up detector, or, with the video element gone, only asks for the
\* next frame
FrameFires(k) ==
    /\ loopPc[k] = "scheduled"
    /\ IF mounted = "mounted"
       THEN loopPc' = [loopPc EXCEPT ![k] = "awaitPushup"] /\ UNCHANGED animationRef
       ELSE animationRef' = k /\ UNCHANGED loopPc
    /\ UNCHANGED <<mounted, loopWanted, cleanupCalls, detectors, community, controls>>

\* detect() of the push-up detector settles: animate() goes on to detect()
\* of the squat detector, or ends with the rejection
PushupDetectSettles(k) ==
    /\ loopPc[k] = "awaitPushup"
    /\ \E next \in {"awaitSquat", "idle"} : loopPc' = [loopPc EXCEPT ![k] = next]
    /\ UNCHANGED <<mounted, loopWanted, animationRef, cleanupCalls, detectors, community, controls>>

\* detect() of the squat detector settles: animate() updates the component
\* state and asks for the next frame, or ends with the rejection
SquatDetectSettles(k) ==
    /\ loopPc[k] = "awaitSquat"
    /\ \/ loopPc' = [loopPc EXCEPT ![k] = "scheduled"] /\ animationRef' = k
       \/ loopPc' = [loopPc EXCEPT ![k] = "idle"] /\ UNCHANGED animationRef
    /\ UNCHANGED <<mounted, loopWanted, cleanupCalls, detectors, community, controls>>

\* the cleanups of the two effects that created the detectors
DetectorEffectCleanups(calls) ==
    [pushup |-> calls.pushup + 1, squat |-> calls.squat + 1]

\* the cleanup of the unmount effect, through the refs
UnmountEffectCleanup(calls) ==
    [pushup |-> calls.pushup + 1, squat |-> calls.squat + 1]

\* the component is unmounted: every effect's cleanup runs
Unmount ==
    /\ mounted = "mounted"
    /\ mounted' = "unmounted"
    /\ cleanupCalls' = UnmountEffectCleanup(DetectorEffectCleanups(cleanupCalls))
    /\ loopPc' = cancelAnimationFrame(loopPc, animationRef)
    /\ UNCHANGED <<loopWanted, animationRef, detectors, community, controls>>

\* new PushupDetector() and new SquatDetector() of the component
InitTracker == Constructed("PushupDetector", {3})

NextTracker ==
    \/ Mount
    \/ AnimationEffectRuns
    \/ \E k \in 1..MaxLoops : FrameFires(k)
    \/ \E k \in 1..MaxLoops : PushupDetectSettles(k)
    \/ \E k \in 1..MaxLoops : SquatDetectSettles(k)
    \/ Unmount

SpecTracker == InitTracker /\ [][NextTracker]_vars

(***************************************************************************)
(* The local highscores: saveCommunitySession() and computeHighscores()    *)
(*                                                                         *)
(* A string is a sequence of characters; an optional property is <<>> when *)
(* absent and <<v>> when it has the value v.  A Date is a number of days,  *)
(* day 1 being Monday 1 January 2024; the date of a session is what        *)
(* new Date(s.date) gives for it, NaN for a string that is no date.        *)
(***************************************************************************)
\* most sessions saved in a behaviour
MaxSessions == 3
\* most days the clock advances
MaxDays == 1
\* sessions of different users in localStorage at the start
RosterSize == 11
\* the entries computeHighscores keeps: slice(0, 10)
TopScores == 10

\* String.prototype.toLowerCase
toLowerCaseChar(c) ==
    CASE c = "A" -> "a" [] c = "B" -> "b" [] c = "U" -> "u" [] OTHER -> c
toLowerCase(str) == [i \in 1..Len(str) |-> toLowerCaseChar(str[i])]

\* String.prototype.trim
RECURSIVE trimStart(_)
trimStart(str) ==
    IF str # <<>> /\ Head(str) = " " THEN trimStart(Tail(str)) ELSE str
RECURSIVE trimEnd(_)
trimEnd(str) ==
    IF str # <<>> /\ str[Len(str)] = " "
    THEN trimEnd(SubSeq(str, 1, Len(str) - 1)) ELSE str
trim(str) == trimEnd(trimStart(str))

\* Date.prototype.getDay: 0 is Sunday
getDay(date) == date % 7
\* the first day of the month of date
FirstOfMonth(date) == IF date <= 31 THEN 1 ELSE IF date <= 60 THEN 32 ELSE 61

\* start, for a call at the date today
StartOf(period, today) ==
    CASE period = "day" -> today
      [] period = "week" -> today - ((getDay(today) + 6) % 7)
      [] OTHER -> FirstOfMonth(today)

\* d >= start (false for an invalid date)
NotBefore(d, start) == d # NaN /\ d >= start

\* a property holds a non-empty string
Truthy(property) == property # <<>> /\ property[1] # <<>>

\* Map.prototype.set
MapSet(map, key, value) ==
    [k \in DOMAIN map \cup {key} |-> IF k = key THEN value ELSE map[k]]

\* the accumulators before the loop over the sessions; names is the name
\* the loop gave each session, <<>> for a session it left out
NoTotals == [totals |-> <<>>, idToName |-> <<>>, totalCount |-> 0, names |-> <<>>]

LeftOut(acc) == [acc EXCEPT !.names = Append(@, <<>>)]

\* totals.get(key), then existing.count += or totals.set
Added(totals, name, cnt) ==
    IF \E j \in 1..Len(totals) : totals[j].key = toLowerCase(name)
    THEN [j \in 1..Len(totals) |->
             IF totals[j].key = toLowerCase(name)
             THEN [totals[j] EXCEPT !.count = @ + cnt] ELSE totals[j]]
    ELSE Append(totals, [key |-> toLowerCase(name), name |-> name, count |-> cnt])

\* the callback of sessions.forEach
EachSession(acc, s, start, exercise) ==
    IF ~NotBefore(s.date, start) THEN LeftOut(acc)
    ELSE IF s.exercise # <<>> /\ s.exercise[1] # exercise THEN LeftOut(acc)
    ELSE LET id == s.user_id
             own == IF Truthy(s.username) /\ trim(s.username[1]) # <<>>
                    THEN <<trim(s.username[1])>> ELSE <<>>
             mail == IF own = <<>> /\ Truthy(s.email) /\ trim(s.email[1]) # <<>>
                     THEN <<trim(s.email[1])>> ELSE own
             map == IF mail # <<>> /\ Truthy(id)
                    THEN MapSet(acc.idToName, id[1], mail[1]) ELSE acc.idToName
             known == IF mail = <<>> /\ Truthy(id) /\ id[1] \in DOMAIN map
                      THEN <<map[id[1]]>> ELSE mail
             name == IF known = <<>> /\ Truthy(id) THEN id ELSE known
         IN  IF name = <<>>
             THEN [LeftOut(acc) EXCEPT !.idToName = map]
             ELSE [totals |-> Added(acc.totals, name[1], s.count),
                   idToName |-> map,
                   totalCount |-> acc.totalCount + s.count,
                   names |-> Append(acc.names, name)]

\* sessions.forEach over the first n sessions
RECURSIVE ForEach(_, _, _, _)
ForEach(stored, n, start, exercise) ==
    IF n = 0 THEN NoTotals
    ELSE EachSession(ForEach(stored, n - 1, start, exercise), stored[n],
                     start, exercise)

\* sort((a, b) => b.count - a.count): the sort is stable
RECURSIVE Sorted(_)
Sorted(entries) ==
    IF entries = <<>> THEN <<>>
    ELSE LET before == Sorted(SubSeq(entries, 1, Len(entries) - 1))
             last == entries[Len(entries)]
             ahead == Cardinality({j \in 1..Len(before) :
                                      before[j].count >= last.count})
         IN  SubSeq(before, 1, ahead) \o <<last>> \o
             SubSeq(before, ahead + 1, Len(before))

\* slice(0, 10)
Sliced(entries) ==
    SubSeq(entries, 1, IF Len(entries) < TopScores THEN Len(entries) ELSE TopScores)

\* computeHighscores(period, exercise), for the sessions stored
computeHighscores(stored, period, exercise, today) ==
    LET acc == ForEach(stored, Len(stored), StartOf(period, today), exercise)
        scores == Sliced(Sorted(acc.totals))
    IN  [scores |-> [i \in 1..Len(scores) |->
                        [name |-> scores[i].name, count |-> scores[i].count]],
         total |-> acc.totalCount]

Bob == <<"B", "o", "b">>
BobPadded == <<" ", "b", "o", "b", " ">>
Al == <<"A", "l">>
Blank == <<" ">>
U1 == <<"U", "1">>

\* the sessions a caller saves on the date given
SessionsOf(date) ==
    { [username |-> <<Bob>>, email |-> <<BobMail>>, user_id |-> <<U1>>,
       exercise |-> <<"pushup">>, count |-> 2, date |-> date],
      [username |-> <<BobPadded>>, email |-> <<BobMail>>, user_id |-> <<U1>>,
       exercise |-> <<"pushup">>, count |-> 1, date |-> date],
      \* as the Login page saves it: no username, no user_id, no exercise
      [username |-> <<>>, email |-> <<AlMail>>, user_id |-> <<>>,
       exercise |-> <<>>, count |-> 1, date |-> date],
      [username |-> <<Al>>, email |-> <<AlMail>>, user_id |-> <<>>,
       exercise |-> <<"squat">>, count |-> 2, date |-> date],
      [username |-> <<Blank>>, email |-> << <<>> >>, user_id |-> <<U1>>,
       exercise |-> <<"pushup">>, count |-> 1, date |-> date],
      [username |-> <<>>, email |-> << <<>> >>, user_id |-> <<>>,
       exercise |-> <<"pushup">>, count |-> 1, date |-> date],
      [username |-> <<Bob>>, email |-> <<BobMail>>, user_id |-> <<U1>>,
       exercise |-> <<"pushup">>, count |-> 2, date |-> NaN] }

Letters == <<"a", "b", "c", "d", "e", "f", "g", "h", "i", "j", "k", "l", "m">>
\* sessions of RosterSize users, saved on Tuesday 30 January
Roster ==
    [k \in 1..RosterSize |->
        [username |-> << <<"p", Letters[k]>> >>, email |-> <<>>,
         user_id |-> <<>>, exercise |-> <<"pushup">>,
         count |-> 1 + (k % 3), date |-> 30]]

\* saveCommunitySession(session)
SaveCommunitySession(session) ==
    /\ \/ Len(sessions) < MaxSessions
       \/ Len(sessions) >= RosterSize /\ Len(sessions) < RosterSize + MaxSessions
    /\ sessions' = Append(sessions, session)
    /\ highscores' = NoResult
    /\ UNCHANGED <<now, server, detectors, tracker, controls>>

\* a day passes
ClockAdvances ==
    /\ now < 31 + MaxDays
    /\ now' = now + 1
    /\ highscores' = NoResult
    /\ UNCHANGED <<sessions, server, detectors, tracker, controls>>

\* computeHighscores(period, exercise)
ComputeHighscores(period, exercise) ==
    /\ \E result \in {computeHighscores(sessions, period, exercise, now)} :
           highscores' = [called |-> TRUE, period |-> period,
                          exercise |-> exercise, scores |-> result.scores,
                          total |-> result.total]
    /\ UNCHANGED <<sessions, now, server, detectors, tracker, controls>>

\* localStorage is empty or holds the roster, on Wednesday 31 January
InitHighscores ==
    /\ impl = "PushupDetector"
    /\ requiredUpFrames = 1
    /\ requiredDownFrames = 1
    /\ InitFields
    /\ InitHistory
    /\ PoseLoaded
    /\ NotMounted
    /\ ControlsIdle
    /\ sessions \in {<<>>, Roster}
    /\ now = 31
    /\ highscores = NoResult
    /\ NoServer

NextHighscores ==
    \/ \E session \in SessionsOf(now) : SaveCommunitySession(session)
    \/ ClockAdvances
    \/ \E period \in {"day", "week", "month"} :
       \E exercise \in {"pushup", "squat"} : ComputeHighscores(period, exercise)

SpecHighscores == InitHighscores /\ [][NextHighscores]_vars

(***************************************************************************)
(* Accounts: register and saveSessionServer of community.ts                *)
(***************************************************************************)
U2 == <<"U", "2">>
\* userData.user.id of the account of an e-mail address
UserId(email) == IF email = AlMail THEN U1 ELSE U2
BobLower == <<"b", "o", "b">>
\* the usernames typed into the forms
Usernames == {Bob, BobLower, BobPadded, Al}
\* the e-mail addresses that have signed up
Registered == {email \in Emails : users[email] # <<>>}

\* from('sessions').select('username').ilike('username', pattern).limit(1):
\* a row whose username equals the pattern without regard to case (the
\* patterns hold no wildcard)
ilike(rows, pattern) ==
    LET hits == {j \in 1..Len(rows) :
                    /\ rows[j].username # <<>>
                    /\ toLowerCase(rows[j].username[1]) = toLowerCase(pattern)}
    IN  IF hits = {} THEN <<>>
        ELSE <<rows[CHOOSE j \in hits : \A k \in hits : j <= k]>>

\* isUsernameTaken(username); the select fails without the column username
isUsernameTaken(rows, cols, username) ==
    LET trimmed == trim(username)
        data == ilike(rows, trimmed)
    IN  IF "username" \notin cols THEN FALSE
        ELSE /\ Len(data) > 0
             /\ \E j \in 1..Len(data) :
                    /\ data[j].username # <<>>
                    /\ toLowerCase(trim(data[j].username[1])) = toLowerCase(trimmed)

Called(name, email, username, threw) ==
    lastCall' = [name |-> name, email |-> <<email>>, username |-> username,
                 threw |-> threw]

\* register(email, password, username); signUp returns an error for an
\* e-mail address that has an account
Register(email, username) ==
    IF isUsernameTaken(sessionRows, columns, username) \/ users[email] # <<>>
    THEN /\ Called("register", email, <<username>>, TRUE)
         /\ UNCHANGED <<users, sessionRows, columns, sessions, now, highscores,
                        detectors, tracker, controls>>
    ELSE /\ users' = [users EXCEPT ![email] = <<username>>]
         /\ Called("register", email, <<username>>, FALSE)
         /\ UNCHANGED <<sessionRows, columns, sessions, now, highscores,
                        detectors, tracker, controls>>

\* the columns, of user_id and username, of insertData and of the variants
\* tried after it
Variants ==
    <<{"user_id", "username"}, {"user_id", "username"}, {"user_id"},
      {"user_id"}, {"username"}, {"username"}, {}, {}>>

\* the row of the first insert that the table accepts
Inserted(cols, userId, username) ==
    LET first == CHOOSE j \in 1..Len(Variants) :
                     /\ Variants[j] \subseteq cols
                     /\ \A k \in 1..(j - 1) : ~(Variants[k] \subseteq cols)
    IN  [user_id |-> IF "user_id" \in Variants[first] THEN <<userId>> ELSE <<>>,
         username |-> IF "username" \in Variants[first] THEN username ELSE <<>>]

\* saveSessionServer(tokens, session, providedUsername) with the tokens of
\* the account of email, for a session of one push-up
SaveSessionServer(email, providedUsername) ==
    /\ users[email] # <<>>
    /\ Len(sessionRows) < MaxSessions
    /\ LET metaUsername == users[email]
           username == IF Truthy(providedUsername)
                       THEN providedUsername ELSE metaUsername
           renames == Truthy(providedUsername) /\ providedUsername # metaUsername
       IN  IF renames /\ isUsernameTaken(sessionRows, columns, providedUsername[1])
           THEN /\ Called("saveSessionServer", email, providedUsername, TRUE)
                /\ UNCHANGED <<users, sessionRows, sessions, highscores>>
           ELSE /\ users' = IF renames
                            THEN [users EXCEPT ![email] = providedUsername]
                            ELSE users
                /\ sessionRows' =
                       Append(sessionRows,
                              Inserted(columns, UserId(email), username))
                /\ sessions' =
                       Append(sessions,
                              [username |-> username, email |-> <<email>>,
                               user_id |-> <<UserId(email)>>,
                               exercise |-> <<"pushup">>, count |-> 1,
                               date |-> now])
                /\ highscores' = NoResult
                /\ Called("saveSessionServer", email, providedUsername, FALSE)
    /\ UNCHANGED <<columns, now, detectors, tracker, controls>>

\* nobody has signed up; the table sessions has any of the two columns
InitAccounts ==
    /\ impl = "PushupDetector"
    /\ requiredUpFrames = 1
    /\ requiredDownFrames = 1
    /\ InitFields
    /\ InitHistory
    /\ PoseLoaded
    /\ NotMounted
    /\ ControlsIdle
    /\ sessions = <<>>
    /\ now = 31
    /\ highscores = NoResult
    /\ users = [email \in Emails |-> <<>>]
    /\ sessionRows = <<>>
    /\ columns \in SUBSET {"user_id", "username"}
    /\ lastCall = NoCall

NextAccounts ==
    \/ \E email \in Emails : \E username \in Usernames : Register(email, username)
    \/ \E email \in Emails :
       \E providedUsername \in {<<>>} \cup {<<username>> : username \in Usernames} :
           SaveSessionServer(email, providedUsername)

SpecAccounts == InitAccounts /\ [][NextAccounts]_vars

(***************************************************************************)
(* The session controls of PushupTracker                                   *)
(***************************************************************************)
\* most repetitions a detector of the component counts
MaxReps == 2
\* the latest reading of Date.now(), in half seconds
MaxTime == 1

Exercises == {"pushup", "squat"}

RECURSIVE GCD(_, _)
GCD(a, b) == IF b = 0 THEN a ELSE GCD(b, a % b)
\* the number a / b of JavaScript for b > 0, as a fraction in lowest terms
Divide(a, b) ==
    LET g == GCD(a, b) IN [num |-> a \div g, den |-> b \div g]
Zero == [num |-> 0, den |-> 1]

\* Math.round((endTime - startTime) / 1000), the times in half seconds
Duration(startTime, endTime) == (endTime - startTime + 1) \div 2

\* (mutant) stopTracking completes a session whatever the count is
stopTrackingAlways(shownPushups, shownSquats, exercise, duration) ==
    LET reps == IF exercise = "pushup" THEN shownPushups ELSE shownSquats
    IN  <<[count |-> reps, duration |-> duration,
           avgTimePerRep |-> IF reps > 0 THEN Divide(duration, reps) ELSE Zero,
           exercise |-> exercise]>>

\* what stopTracking gives to onSessionComplete, for the counts displayed,
\* the exercise selected and the duration it computed: <<>> is no call
stopTracking(shownPushups, shownSquats, exercise, duration) ==
    LET avgTimePerRepPushup ==
            IF shownPushups > 0 THEN Divide(duration, shownPushups) ELSE Zero
        avgTimePerRepSquat ==
            IF shownSquats > 0 THEN Divide(duration, shownSquats) ELSE Zero
        reps == IF exercise = "pushup" THEN shownPushups ELSE shownSquats
        avg == IF exercise = "pushup" THEN avgTimePerRepPushup
               ELSE avgTimePerRepSquat
    IN  IF reps > 0
        THEN <<[count |-> reps, duration |-> duration, avgTimePerRep |-> avg,
                exercise |-> exercise]>>
        ELSE <<>>

\* the history of a handler that calls no stopTracking()
Handled(name) ==
    /\ handler' = name
    /\ completed' = <<>>
    /\ resetFrom' = IF name = "startTracking" THEN counted ELSE Unused
    /\ IF name = "startTracking" THEN TRUE ELSE UNCHANGED stopped

\* most getUserMedia() calls of enableCamera() that are pending at a time
MaxRequested == 2

\* enableCamera() is called from its button and awaits getUserMedia()
EnableCamera ==
    /\ ~cameraEnabled
    /\ requested < MaxRequested
    /\ requested' = requested + 1
    /\ Handled("other")
    /\ UNCHANGED <<cameraEnabled, videoReady, status, isTracking, trackerCount,
                   squatCount, selectedExercise, startTimeRef, counted,
                   inflight, sessionTime>>
    /\ UNCHANGED <<detectors, tracker, community>>

\* getUserMedia() has delivered a stream: enableCamera() continues
EnableCameraContinues ==
    /\ requested > 0
    /\ requested' = requested - 1
    /\ cameraEnabled' = TRUE
    /\ Handled("other")
    /\ UNCHANGED <<videoReady, status, isTracking, trackerCount, squatCount,
                   selectedExercise, startTimeRef, counted, inflight,
                   sessionTime>>
    /\ UNCHANGED <<detectors, tracker, community>>

\* getUserMedia() has rejected: the catch block of enableCamera()
EnableCameraCatches ==
    /\ requested > 0
    /\ requested' = requested - 1
    /\ cameraEnabled' = FALSE
    /\ videoReady' = FALSE
    /\ Handled("other")
    /\ UNCHANGED <<status, isTracking, trackerCount, squatCount,
                   selectedExercise, startTimeRef, counted, inflight,
                   sessionTime>>
    /\ UNCHANGED <<detectors, tracker, community>>

\* handleVideoLoadedMetadata()
HandleVideoLoadedMetadata ==
    /\ cameraEnabled
    /\ ~videoReady
    /\ videoReady' = TRUE
    /\ Handled("other")
    /\ UNCHANGED <<cameraEnabled, status, isTracking, trackerCount, squatCount,
                   selectedExercise, startTimeRef, counted, inflight, sessionTime>>
    /\ UNCHANGED <<detectors, tracker, community, requested>>

\* disableCamera(), from the button of the control bar
DisableCamera ==
    /\ cameraEnabled
    /\ cameraEnabled' = FALSE
    /\ videoReady' = FALSE
    /\ isTracking' = FALSE
    /\ status' = "ready"
    /\ Handled("other")
    /\ UNCHANGED <<trackerCount, squatCount, selectedExercise, startTimeRef,
                   counted, inflight, sessionTime>>
    /\ UNCHANGED <<detectors, tracker, community, requested>>

\* the early return of startTracking
startTrackingRefused(camera, video) == ~camera \/ ~video

\* (mutant) startTracking leaves the squat detector as it is
StartTrackingKeepsSquats ==
    /\ status = "ready"
    /\ Handled("startTracking")
    /\ IF startTrackingRefused(cameraEnabled, videoReady)
       THEN UNCHANGED <<cameraEnabled, videoReady, status, isTracking,
                        trackerCount, squatCount, selectedExercise,
                        startTimeRef, counted, inflight, sessionTime,
                        stopped>>
       ELSE /\ counted' = [counted EXCEPT !.pushup = Fresh]
            /\ trackerCount' = 0
            /\ squatCount' = 0
            /\ sessionTime' = 0
            /\ \E t \in startTimeRef..MaxTime : startTimeRef' = t
            /\ isTracking' = TRUE
            /\ status' = "tracking"
            /\ stopped' = FALSE
            /\ UNCHANGED <<cameraEnabled, videoReady, selectedExercise,
                           inflight>>
    /\ UNCHANGED <<detectors, tracker, community, requested>>

\* startTracking(), from the Start button
StartTracking ==
    /\ status = "ready"
    /\ Handled("startTracking")
    /\ IF startTrackingRefused(cameraEnabled, videoReady)
       THEN UNCHANGED <<cameraEnabled, videoReady, status, isTracking,
                        trackerCount, squatCount, selectedExercise,
                        startTimeRef, counted, inflight, sessionTime,
                        stopped>>
       ELSE /\ counted' = [pushup |-> Fresh, squat |-> Fresh]
            /\ trackerCount' = 0
            /\ squatCount' = 0
            /\ sessionTime' = 0
            /\ \E t \in startTimeRef..MaxTime : startTimeRef' = t
            /\ isTracking' = TRUE
            /\ status' = "tracking"
            /\ stopped' = FALSE
            /\ UNCHANGED <<cameraEnabled, videoReady, selectedExercise,
                           inflight>>
    /\ UNCHANGED <<detectors, tracker, community, requested>>

\* the Pause button
PauseTracking ==
    /\ status = "tracking"
    /\ isTracking' = FALSE
    /\ status' = "paused"
    /\ Handled("other")
    /\ UNCHANGED <<cameraEnabled, videoReady, trackerCount, squatCount,
                   selectedExercise, startTimeRef, counted, inflight, sessionTime>>
    /\ UNCHANGED <<detectors, tracker, community, requested>>

\* the button that resumes from pause
ResumeTracking ==
    /\ status = "paused"
    /\ isTracking' = TRUE
    /\ status' = "tracking"
    /\ Handled("resume")
    /\ UNCHANGED <<cameraEnabled, videoReady, trackerCount, squatCount,
                   selectedExercise, startTimeRef, counted, inflight, sessionTime>>
    /\ UNCHANGED <<detectors, tracker, community, requested>>

\* what every stopTracking() call does, Date.now() returning endTime
Stopped(endTime) ==
    /\ completed' = stopTracking(trackerCount, squatCount, selectedExercise,
                                 Duration(startTimeRef, endTime))
    /\ trackerCount' = 0
    /\ squatCount' = 0
    /\ sessionTime' = 0
    /\ handler' = "stopTracking"
    /\ resetFrom' = Unused
    /\ stopped' = TRUE
    /\ UNCHANGED <<selectedExercise, startTimeRef, counted, inflight>>
    /\ UNCHANGED <<detectors, tracker, community, requested>>

\* stopTracking(), from the Stop button
StopTracking ==
    /\ status \in {"tracking", "paused"}
    /\ \E endTime \in startTimeRef..MaxTime : Stopped(endTime)
    /\ isTracking' = FALSE
    /\ status' = "ready"
    /\ UNCHANGED <<cameraEnabled, videoReady>>

\* the button on the video: stopTracking(), then disableCamera()
StopAndDisableCamera ==
    /\ cameraEnabled
    /\ \E endTime \in startTimeRef..MaxTime : Stopped(endTime)
    /\ isTracking' = FALSE
    /\ status' = "ready"
    /\ cameraEnabled' = FALSE
    /\ videoReady' = FALSE

\* the exercise toggle on the video
SelectExercise(v) ==
    /\ cameraEnabled
    /\ selectedExercise' = v
    /\ Handled("other")
    /\ UNCHANGED <<cameraEnabled, videoReady, status, isTracking, trackerCount,
                   squatCount, startTimeRef, counted, inflight, sessionTime>>
    /\ UNCHANGED <<detectors, tracker, community, requested>>

\* animate() is called and awaits detect() of the push-up detector,
\* holding the isTracking and selectedExercise of the effect that defined it
AnimateCalled ==
    /\ cameraEnabled
    /\ videoReady
    /\ inflight = <<>>
    /\ inflight' = <<[isTracking |-> isTracking,
                      selectedExercise |-> selectedExercise,
                      awaits |-> "pushup", newCount |-> 0]>>
    /\ Handled("other")
    /\ UNCHANGED <<cameraEnabled, videoReady, status, isTracking, trackerCount,
                   squatCount, selectedExercise, startTimeRef, counted, sessionTime>>
    /\ UNCHANGED <<detectors, tracker, community, requested>>

\* a detector after detect() has processed a frame that completed reps
\* repetitions (0 or 1)
Detected(detector, reps) ==
    [count |-> IF detector.count + reps > MaxReps THEN detector.count
               ELSE detector.count + reps,
     fresh |-> FALSE]

\* detect() of the push-up detector has settled: animate() keeps its count
\* as newCount and awaits detect() of the squat detector
AnimateAwaitsSquats ==
    /\ inflight # <<>>
    /\ inflight[1].awaits = "pushup"
    /\ \E pushups \in 0..1 :
           counted' = [counted EXCEPT !.pushup = Detected(@, pushups)]
    /\ inflight' = <<[inflight[1] EXCEPT !.awaits = "squat",
                                         !.newCount = counted'.pushup.count]>>
    /\ Handled("other")
    /\ UNCHANGED <<cameraEnabled, videoReady, status, isTracking, trackerCount,
                   squatCount, selectedExercise, startTimeRef, sessionTime>>
    /\ UNCHANGED <<detectors, tracker, community, requested>>

\* detect() of the squat detector has settled: animate() displays the count
\* of the selected exercise if it was defined while tracking
AnimateContinues ==
    /\ inflight # <<>>
    /\ inflight[1].awaits = "squat"
    /\ \E squats \in 0..1 :
           counted' = [counted EXCEPT !.squat = Detected(@, squats)]
    /\ IF inflight[1].isTracking
       THEN /\ IF inflight[1].selectedExercise = "pushup"
               THEN trackerCount' = inflight[1].newCount
                    /\ UNCHANGED squatCount
               ELSE squatCount' = counted'.squat.count
                    /\ UNCHANGED trackerCount
            /\ \E endTime \in startTimeRef..MaxTime :
                   sessionTime' = Duration(startTimeRef, endTime)
       ELSE UNCHANGED <<trackerCount, squatCount, sessionTime>>
    /\ inflight' = <<>>
    /\ Handled("other")
    /\ UNCHANGED <<cameraEnabled, videoReady, status, isTracking,
                   selectedExercise, startTimeRef>>
    /\ UNCHANGED <<detectors, tracker, community, requested>>

InitSession == Constructed("PushupDetector", {3})

NextSession ==
    \/ EnableCamera
    \/ EnableCameraContinues
    \/ EnableCameraCatches
    \/ HandleVideoLoadedMetadata
    \/ DisableCamera
    \/ StartTracking
    \/ PauseTracking
    \/ ResumeTracking
    \/ StopTracking
    \/ StopAndDisableCamera
    \/ \E v \in Exercises : SelectExercise(v)
    \/ AnimateCalled
    \/ AnimateAwaitsSquats
    \/ AnimateContinues

SpecSession == InitSession /\ [][NextSession]_vars

(***************************************************************************)
(* Claims                                                                  *)
(***************************************************************************)
IsPushup == impl = "PushupDetector"
Processed ==
    /\ lastOp = "onResults"
    /\ lastLabel \in {"up", "down", "mid", "between", "other"}
\* the state machine fields are what they were before the last operation
SameMachine ==
    /\ state = prev.state
    /\ count = prev.count
    /\ consecutiveUpFrames = prev.consecutiveUpFrames

\* C1: a pose result handled by the push-up detector, the smoothing squat
\* detector or the visibility-gated squat detector leaves count as it was or
\* adds exactly 1 to it.
C1_CountMonotonic ==
    (impl \in {"PushupDetector", "SquatSmooth", "SquatGated"} /\ lastOp = "onResults") =>
        count \in {prev.count, prev.count + 1}
\* the visibility-gated squat detector has just counted a second repetition
C1_Witness ==
    /\ impl = "SquatGated" /\ lastOp = "onResults"
    /\ prev.count = 1 /\ count = 2 /\ prev.isDown /\ ~isDown

\* C2: in PushupDetector a pose result changes count exactly when it takes
\* the state from Down to Up, and then it adds exactly 1.
C2_CountOnlyOnDownToUp ==
    (IsPushup /\ lastOp = "onResults") =>
        /\ (count # prev.count) <=> (prev.state = Down /\ state = Up)
        /\ count # prev.count => count = prev.count + 1
\* a second repetition is counted on a Down -> Up step
C2_Witness ==
    /\ IsPushup /\ lastOp = "onResults"
    /\ prev.state = Down /\ state = Up /\ prev.count = 1 /\ count = 2

\* the state reset() leaves behind in the push-up detector and in the
\* smoothing squat detector
AfterReset ==
    /\ count = 0
    /\ state = Unknown
    /\ consecutiveUpFrames = 0
    /\ landmarks = <<>>
    /\ lastAvgAngle = 0
    /\ IsPushup => smoothedAngle = 0
    /\ impl = "SquatSmooth" => smoothedLandmarks = <<>>

\* C3: after reset() count is 0, state is Unknown, consecutiveUpFrames is 0
\* and the smoothing history is empty, whatever came before; a reset() that
\* directly follows a reset() changes no field.
C3_ResetClears ==
    /\ []((impl \in {"PushupDetector", "SquatSmooth"} /\ lastOp = "reset") => AfterReset)
    /\ [][(impl \in {"PushupDetector", "SquatSmooth"}
            /\ lastOp = "reset" /\ lastOp' = "reset") => UNCHANGED fields]_vars
\* reset() of a push-up detector in the middle of an up run of its second
\* repetition
C3_Witness ==
    /\ IsPushup /\ lastOp = "reset"
    /\ prev.count = 1 /\ prev.state = Down /\ prev.consecutiveUpFrames = 1
    /\ prev.smoothedAngle > 0
    /\ count = 0 /\ state = Unknown /\ consecutiveUpFrames = 0

\* C4: with requiredUpFrames > 1, one up-frame that follows a non-up frame
\* in state Down leaves the state Down and the count as it was, and so does
\* the non-up frame after it.
C4_IsolatedUpFrame ==
    (IsPushup /\ requiredUpFrames > 1) =>
        /\ upRun = 1 => (state = Down /\ count = runBase)
        /\ (Processed /\ lastLabel # "up" /\ prev.state = Down) =>
               (state = Down /\ count = prev.count)
\* the non-up frame after an isolated up-frame has been processed
C4_Witness ==
    /\ IsPushup /\ requiredUpFrames > 1
    /\ Processed /\ lastLabel = "down"
    /\ prev.state = Down /\ prev.consecutiveUpFrames = 1
    /\ upRun = 0 /\ state = Down

\* C5: after a frame that entered Down, a run of up-frames leaves the count
\* alone while it is shorter than requiredUpFrames, the frame that makes it
\* requiredUpFrames long adds exactly 1 and moves to Up, and the up-frames
\* directly after it add nothing.
C5_ExactRun ==
    (IsPushup /\ enteredDown /\ upRun >= 0) =>
        IF upRun < requiredUpFrames
        THEN state = Down /\ count = runBase
        ELSE state = Up /\ count = runBase + 1
\* the last frame of a run of requiredUpFrames >= 2 up-frames has just counted
C5_Witness ==
    /\ IsPushup /\ enteredDown /\ requiredUpFrames >= 2
    /\ upRun = requiredUpFrames /\ lastLabel = "up"
    /\ prev.count = runBase /\ count = runBase + 1

\* C6: from a reset push-up detector or un-debounced squat detector, while
\* every processed frame has both joint angles strictly between 100 and 160,
\* count is 0.
C6_BetweenThresholds ==
    (impl \in {"PushupDetector", "SquatPlain"} /\ phase = "mid") => count = 0
\* the un-debounced squat detector has processed a second in-between frame
C6_Witness ==
    /\ impl = "SquatPlain" /\ phase = "mid" /\ lastOp = "onResults"
    /\ lastResults = WithLandmarks(SquatMid)
    /\ prev.state = Down /\ state = Down /\ count = 0

\* C7: from a reset PushupDetector, up-frames (elbows 170, shoulders above),
\* then down-frames (elbows 90, shoulders below), then up-frames: count is 0
\* until the final up phase is requiredUpFrames long and 1 from then on.
C7_PushupEndToEnd ==
    IsPushup =>
        /\ phase \in {"up", "down"} => count = 0
        /\ phase = "final" =>
               count = (IF phaseUps >= requiredUpFrames THEN 1 ELSE 0)
\* the final up phase has just reached requiredUpFrames >= 2 frames
C7_Witness ==
    /\ IsPushup /\ phase = "final" /\ requiredUpFrames >= 2
    /\ phaseUps = requiredUpFrames /\ count = 1
    /\ lastResults = WithLandmarks(PoseUp170)

\* C8: in the smoothing squat detector, from reset, up-frames, then frames
\* that are not up-frames with a down-frame (hips below knees) among them,
\* then up-frames: count is 0 until the final up phase is requiredUpFrames
\* long and 1 from then on; and while no up-frame has been processed in
\* state Down since reset, count is 0.
C8_SquatEndToEnd ==
    impl = "SquatSmooth" =>
        /\ phase \in {"up", "down"} => count = 0
        /\ phase = "final" =>
               count = (IF phaseUps >= requiredUpFrames THEN 1 ELSE 0)
        /\ ~upAfterDown => count = 0
\* the final up phase of a squat has just reached requiredUpFrames >= 2 frames
C8_Witness ==
    /\ impl = "SquatSmooth" /\ phase = "final" /\ requiredUpFrames >= 2
    /\ phaseUps = requiredUpFrames /\ lastLabel = "up"
    /\ prev.count = 0 /\ count = 1 /\ prev.state = Down /\ state = Up

\* C9: a pose result of PushupDetector with a wrist, elbow or shoulder
\* landmark undefined leaves count, state, consecutiveUpFrames and the
\* smoothed angle as they were.
C9_MissingLandmarkSkipped ==
    (/\ IsPushup /\ lastOp = "onResults"
     /\ lastResults.poseLandmarks # <<>>
     /\ \E j \in {LEFT_SHOULDER, RIGHT_SHOULDER, LEFT_ELBOW, RIGHT_ELBOW,
                  LEFT_WRIST, RIGHT_WRIST} :
            ~lastResults.poseLandmarks[1][j].def) =>
        /\ SameMachine
        /\ smoothedAngle = prev.smoothedAngle
        /\ lastAvgAngle = prev.lastAvgAngle
\* a frame without wrists arrived in the middle of an up run
C9_Witness ==
    /\ IsPushup /\ lastOp = "onResults"
    /\ lastResults = WithLandmarks(PoseNoWrists)
    /\ state = Down /\ consecutiveUpFrames = 1 /\ smoothedAngle > 0

\* a frame of PushupDetector with an undefined (NaN) elbow angle
NaNFrame ==
    /\ lastOp = "onResults" /\ lastLabel = "other"
    /\ LET l == lastResults.poseLandmarks[1]
       IN  \/ calculateAngle(l[LEFT_SHOULDER], l[LEFT_ELBOW], l[LEFT_WRIST]) = NaN
           \/ calculateAngle(l[RIGHT_SHOULDER], l[RIGHT_ELBOW], l[RIGHT_WRIST]) = NaN

\* C10: a frame of PushupDetector whose joint angle is NaN is skipped: state,
\* count, consecutiveUpFrames and getLastAngle() are as before the frame.
C10_NaNFrameSkipped ==
    (IsPushup /\ NaNFrame) => (SameMachine /\ lastAvgAngle = prev.lastAvgAngle)

\* C11: when send() rejects or throws on a submitted frame, detect() resolves
\* with the current count, and count and state are as before.
C11_SendFailureResolves ==
    lastOp = "sendFails" =>
        /\ call.pc = "resolved" /\ call.value = count
        /\ count = prev.count /\ state = prev.state

\* C12: once initPose() has thrown, isReady() is false in every later state,
\* whatever detect() calls follow, initPose() has been called once only and
\* the initialisation is never pending again.
C12_InitFailureNotReady ==
    /\ [](poseInit = "rejected" => (~isReady /\ initCalls = 1))
    /\ [][poseInit = "rejected" => poseInit' = "rejected"]_vars
\* a detect() call made after the failure has been resumed and has rejected
C12_Witness ==
    /\ poseInit = "rejected" /\ lastOp = "detectResumes"
    /\ call.pc = "rejected" /\ ~isReady /\ initCalls = 1

\* C13: isReady() turns true only in a pose result with landmarks, is true
\* after every such result and stays true (reset() included); while it is
\* false, count is 0 and state is Unknown.
C13_ReadyAfterFirstResult ==
    /\ [](~isReady => (count = 0 /\ state = Unknown))
    /\ []((lastOp = "onResults" /\ lastResults.poseLandmarks # <<>>) => isReady)
    /\ [][isReady => isReady']_vars
    /\ [][(~isReady /\ isReady') =>
             (lastOp' = "onResults" /\ lastResults'.poseLandmarks # <<>>)]_vars
\* reset() of a counting detector leaves it ready
C13_Witness ==
    /\ lastOp = "reset" /\ prev.count >= 1 /\ count = 0 /\ isReady

\* C14: the pose result of a frame that was sent before cleanup() and is
\* delivered after it leaves count, state, the run counter and the angle as
\* they were.
C14_ResultAfterCleanupIgnored ==
    (cleaned /\ crossed /\ lastOp = "onResults") =>
        (SameMachine /\ lastAvgAngle = prev.lastAvgAngle)

\* C15: once the PushupTracker component is unmounted, cleanup() has been
\* called exactly once on the push-up detector and exactly once on the
\* squat detector.
C15_CleanupOnce ==
    mounted = "unmounted" => cleanupCalls = [pushup |-> 1, squat |-> 1]

\* C16: at no time are two detect() calls of the animation loop unresolved
\* on the same detector.
C16_OneDetectOutstanding ==
    /\ Cardinality({k \in 1..MaxLoops : loopPc[k] = "awaitPushup"}) <= 1
    /\ Cardinality({k \in 1..MaxLoops : loopPc[k] = "awaitSquat"}) <= 1

\* a frame of the smoothing push-up detector whose list lacks a shoulder,
\* elbow or wrist, or whose length is not that of the smoothing buffer
IrregularList ==
    /\ lastOp = "onResults" /\ lastResults.poseLandmarks # <<>>
    /\ LET l == lastResults.poseLandmarks[1]
       IN  \/ \E j \in {LEFT_SHOULDER, LEFT_ELBOW, LEFT_WRIST,
                         RIGHT_SHOULDER, RIGHT_ELBOW, RIGHT_WRIST} :
                  j \notin DOMAIN l \/ ~l[j].def
           \/ /\ prev.smoothedLandmarks # <<>>
              /\ DOMAIN l # DOMAIN prev.smoothedLandmarks[1]

\* C17: the smoothing push-up detector drops such a frame: the callback
\* does not throw, and state, count, the run counter and the smoothed angle
\* are as before.
C17_IrregularListDropped ==
    (impl = "PushupSmooth" /\ IrregularList) =>
        /\ lastLabel # "threw"
        /\ SameMachine
        /\ smoothedAngle = prev.smoothedAngle

\* C18: in the visibility-gated squat detector, after a frame without
\* visible legs between two frames with them, isDown and count are what they
\* would be had that frame shown the legs, and framesBelowVisibility is 0.
C18_SingleHiddenFrameHarmless ==
    (impl = "SquatGated" /\ sandwich = "closed") =>
        /\ isDown = shadow.isDown
        /\ count = shadow.count
        /\ framesBelowVisibility = 0

\* a frame with every required landmark and no leg landmark above 0.3
HiddenFrame ==
    /\ lastOp = "onResults" /\ lastResults.poseLandmarks # <<>>
    /\ LET l == lastResults.poseLandmarks[1]
       IN  /\ \A j \in {LEFT_HIP, RIGHT_HIP, LEFT_KNEE, RIGHT_KNEE, LEFT_ANKLE,
                         RIGHT_ANKLE, LEFT_SHOULDER, RIGHT_SHOULDER} : l[j].def
           /\ ~ShowsLegs(l)

\* C19: in the visibility-gated squat detector, a frame without visible legs
\* that follows at least two such frames in a row leaves count, isDown,
\* downFrameCount, upFrameCount, angleHistory and torsoHistory as they were.
C19_FrozenWhileHidden ==
    (impl = "SquatGated" /\ HiddenFrame /\ prev.framesBelowVisibility >= 2) =>
        /\ count = prev.count
        /\ isDown = prev.isDown
        /\ downFrameCount = prev.downFrameCount
        /\ upFrameCount = prev.upFrameCount
        /\ angleHistory = prev.angleHistory
        /\ torsoHistory = prev.torsoHistory
\* the fourth hidden frame in a row, in the middle of a repetition
C19_Witness ==
    /\ impl = "SquatGated" /\ HiddenFrame
    /\ prev.framesBelowVisibility = 3 /\ framesBelowVisibility = 4
    /\ isDown /\ downFrameCount >= 1 /\ Len(angleHistory) >= 3

\* the sessions computeHighscores had to count: in the period, with a name,
\* and of the exercise asked for (a session saved without exercise is a
\* push-up session)
CountedSessions ==
    LET start == StartOf(highscores.period, now)
        names == ForEach(sessions, Len(sessions), start,
                         highscores.exercise).names
    IN  {i \in 1..Len(sessions) :
            /\ sessions[i].date # NaN /\ sessions[i].date >= start
            /\ \/ sessions[i].exercise = <<highscores.exercise>>
               \/ sessions[i].exercise = <<>> /\ highscores.exercise = "pushup"
            /\ names[i] # <<>>}
RECURSIVE SumOfCounts(_)
SumOfCounts(indices) ==
    IF indices = {} THEN 0
    ELSE LET i == CHOOSE i \in indices : TRUE
         IN  sessions[i].count + SumOfCounts(indices \ {i})
\* the sessions counted for the user of the name given
SessionsOfUser(name) ==
    LET names == ForEach(sessions, Len(sessions),
                         StartOf(highscores.period, now),
                         highscores.exercise).names
    IN  {i \in CountedSessions : toLowerCase(names[i][1]) = toLowerCase(name)}

\* C20: computeHighscores returns at most 10 entries in order of
\* non-increasing count; the count of an entry is the sum of the counts of
\* the sessions of that user, names compared without case, within the period
\* and for the exercise selected; total is the sum over all such sessions.
C20_Highscores ==
    highscores.called =>
        /\ Len(highscores.scores) <= 10
        /\ \A i, j \in 1..Len(highscores.scores) :
              i < j => highscores.scores[i].count >= highscores.scores[j].count
        /\ \A i \in 1..Len(highscores.scores) :
              highscores.scores[i].count =
                  SumOfCounts(SessionsOfUser(highscores.scores[i].name))
        /\ highscores.total = SumOfCounts(CountedSessions)

\* C21: in PushupDetector a processed frame takes Unknown to Up when it is an
\* up-frame and to Down when it is not, Up to Down when it is a down-frame,
\* Down to Up with count + 1 when it is an up-frame that makes the run of
\* up-frames requiredUpFrames long or longer, and changes neither state nor
\* count otherwise; the state is not Unknown once a frame was processed
\* since the constructor or reset().
C21_TransitionTable ==
    /\ (IsPushup /\ phase # "start") => state # Unknown
    /\ (IsPushup /\ Processed) =>
          CASE prev.state = Unknown ->
                 /\ state = (IF lastLabel = "up" THEN Up ELSE Down)
                 /\ count = prev.count
            [] prev.state = Up ->
                 /\ state = (IF lastLabel = "down" THEN Down ELSE Up)
                 /\ count = prev.count
            [] prev.state = Down ->
                 IF lastLabel = "up" /\ upRun >= requiredUpFrames
                 THEN state = Up /\ count = prev.count + 1
                 ELSE state = Down /\ count = prev.count
\* a down-frame takes the detector from Up to Down after its first repetition
C21_Witness ==
    /\ IsPushup /\ Processed /\ lastLabel = "down"
    /\ prev.state = Up /\ state = Down /\ count = 1 /\ requiredUpFrames = 2

\* C22: in the squat detector with up and down debouncing, the first frame
\* processed after the constructor or reset() leaves the state Up when it is
\* an up-frame and Down when it is not.
C22_FirstFrameLeavesUnknown ==
    (impl = "SquatDebounced" /\ lastOp = "onResults" /\ firstFrame) =>
        state = (IF lastLabel = "up" THEN Up ELSE Down)

\* the last frame has the six arm landmarks
ArmsSeen ==
    /\ lastOp = "onResults" /\ lastResults.poseLandmarks # <<>>
    /\ \A j \in {LEFT_SHOULDER, LEFT_ELBOW, LEFT_WRIST,
                  RIGHT_SHOULDER, RIGHT_ELBOW, RIGHT_WRIST} :
           lastResults.poseLandmarks[1][j].def
\* the elbow angle of the last frame averaged over both arms is above 160
\* and both shoulders are above their elbows
AveragedUpFrame ==
    LET l == lastResults.poseLandmarks[1]
        avg == Avg2(calculateAngle(l[LEFT_SHOULDER], l[LEFT_ELBOW], l[LEFT_WRIST]),
                    calculateAngle(l[RIGHT_SHOULDER], l[RIGHT_ELBOW], l[RIGHT_WRIST]))
    IN  /\ avg # NaN /\ avg > 160
        /\ l[LEFT_SHOULDER].y < l[LEFT_ELBOW].y
        /\ l[RIGHT_SHOULDER].y < l[RIGHT_ELBOW].y

\* C23: PushupDetector takes a frame for an up-frame, which is what moves it
\* from Unknown to Up, exactly when the elbow angle averaged over both arms
\* is above 160 and both shoulders are above their elbows.
C23_UpFrameByAverage ==
    (IsPushup /\ ArmsSeen /\ prev.state = Unknown) =>
        (state = Up <=> AveragedUpFrame)

\* the last frame has both shoulders below their elbows
ShouldersBelow ==
    LET l == lastResults.poseLandmarks[1]
    IN  /\ l[LEFT_SHOULDER].y > l[LEFT_ELBOW].y
        /\ l[RIGHT_SHOULDER].y > l[RIGHT_ELBOW].y

\* C24: PushupDetector takes a frame with both shoulders below their elbows
\* for a down-frame, whatever the elbow angles: in state Up it moves the
\* detector to Down.
C24_DownFrameByShoulders ==
    (IsPushup /\ ArmsSeen /\ ShouldersBelow /\ prev.state = Up) => state = Down

\* the last frame has every landmark the visibility-gated detector requires
GatedSeen ==
    /\ impl = "SquatGated" /\ lastOp = "onResults"
    /\ lastResults.poseLandmarks # <<>>
    /\ \A j \in {LEFT_HIP, RIGHT_HIP, LEFT_KNEE, RIGHT_KNEE, LEFT_ANKLE,
                  RIGHT_ANKLE, LEFT_SHOULDER, RIGHT_SHOULDER} :
           lastResults.poseLandmarks[1][j].def

\* C25: in the visibility-gated squat detector a frame with every required
\* landmark gets past the gate exactly when its legs are visible or it is
\* the first or second of a run of frames without visible legs (the run
\* being counted over the frames that have every required landmark), and
\* after a frame with visible legs framesBelowVisibility is 0.
C25_GateRule ==
    GatedSeen =>
        /\ gatePassed <=>
               (ShowsLegs(lastResults.poseLandmarks[1]) \/ hiddenRun \in {1, 2})
        /\ ShowsLegs(lastResults.poseLandmarks[1]) => framesBelowVisibility = 0
\* the second frame without visible legs in a row is let through and handled
C25_Witness ==
    /\ GatedSeen /\ ~ShowsLegs(lastResults.poseLandmarks[1])
    /\ hiddenRun = 2 /\ gatePassed
    /\ Len(angleHistory) = Len(prev.angleHistory) + 1 /\ prev.isDown

\* the last pose result has landmarks, but no wrist landmarks
NoWristsSeen ==
    /\ lastOp = "onResults" /\ lastResults.poseLandmarks # <<>>
    /\ \A j \in {LEFT_WRIST, RIGHT_WRIST} :
           \/ j \notin DOMAIN lastResults.poseLandmarks[1]
           \/ ~lastResults.poseLandmarks[1][j].def

\* C26: the smoothing push-up detector skips a pose result without wrist
\* landmarks: the callback returns, and state, count, consecutiveUpFrames,
\* the smoothed angle and the smoothing buffer are what they were.
C26_NoWristsSkipped ==
    (impl = "PushupSmooth" /\ NoWristsSeen) =>
        /\ lastLabel # "threw"
        /\ SameMachine
        /\ smoothedAngle = prev.smoothedAngle
        /\ smoothedLandmarks = prev.smoothedLandmarks

\* the last pose result is a list without undefined entries, and the buffer
\* it met was empty or a list with numbers at the same indices
RegularFrame ==
    /\ lastOp = "onResults" /\ lastResults.poseLandmarks # <<>>
    /\ \A j \in DOMAIN lastResults.poseLandmarks[1] :
           lastResults.poseLandmarks[1][j].def
    /\ \/ prev.smoothedLandmarks = <<>>
       \/ /\ DOMAIN prev.smoothedLandmarks[1] = DOMAIN lastResults.poseLandmarks[1]
          /\ \A j \in DOMAIN prev.smoothedLandmarks[1] :
                 /\ prev.smoothedLandmarks[1][j].x # NaN
                 /\ prev.smoothedLandmarks[1][j].visibility # NaN
\* new is 0.8 * old + 0.2 * cur, to the nearest whole number
Blended(new, old, cur) == 10 * new - (8 * old + 2 * cur) \in -5..5

\* C27: in the revisions that smooth the landmarks, the first frame after
\* the constructor or reset() leaves the raw landmarks of that frame in the
\* buffer, and every later frame leaves in it, coordinate by coordinate,
\* 0.8 times the buffer plus 0.2 times the frame.
C27_FirstFrameRaw ==
    (impl \in {"PushupSmooth", "SquatSmooth"} /\ RegularFrame) =>
        LET l == lastResults.poseLandmarks[1]
        IN  IF prev.smoothedLandmarks = <<>>
            THEN smoothedLandmarks = <<l>>
            ELSE /\ smoothedLandmarks # <<>>
                 /\ DOMAIN smoothedLandmarks[1] = DOMAIN l
                 /\ \A j \in DOMAIN l :
                        LET new == smoothedLandmarks[1][j]
                            old == prev.smoothedLandmarks[1][j]
                        IN  /\ Blended(new.x, old.x, l[j].x)
                            /\ Blended(new.y, old.y, l[j].y)
                            /\ Blended(new.z, old.z, l[j].z)
                            /\ Blended(new.visibility, old.visibility,
                                       l[j].visibility)
\* a later frame of the squat detector moved the buffer part of the way
C27_Witness ==
    /\ impl = "SquatSmooth" /\ RegularFrame /\ prev.smoothedLandmarks # <<>>
    /\ smoothedLandmarks[1][LEFT_HIP].y # prev.smoothedLandmarks[1][LEFT_HIP].y
    /\ smoothedLandmarks[1][LEFT_HIP].y # lastResults.poseLandmarks[1][LEFT_HIP].y

\* the torso of the last frame is turned by more than 15 degrees from the
\* orientation last pushed to torsoHistory
TurnedFrame ==
    /\ GatedSeen /\ prev.torsoHistory # <<>>
    /\ LET last == prev.torsoHistory[Len(prev.torsoHistory)]
           swing == torsoAngle(lastResults.poseLandmarks[1]) - last
       IN  swing > 15 \/ swing < -15

\* C28: the visibility-gated squat detector rejects a frame whose torso is
\* turned by more than 15 degrees from the last accepted orientation: count,
\* isDown, downFrameCount, upFrameCount, angleHistory and torsoHistory are
\* as before.
C28_TurnedFrameRejected ==
    TurnedFrame =>
        /\ count = prev.count
        /\ isDown = prev.isDown
        /\ downFrameCount = prev.downFrameCount
        /\ upFrameCount = prev.upFrameCount
        /\ angleHistory = prev.angleHistory
        /\ torsoHistory = prev.torsoHistory
\* a turned frame with visible legs arrives in the down phase
C28_Witness ==
    /\ TurnedFrame /\ ShowsLegs(lastResults.poseLandmarks[1])
    /\ prev.isDown /\ isDown /\ framesBelowVisibility = 0
    /\ Len(angleHistory) >= 3

\* the count displayed for the exercise that is selected
Shown == IF selectedExercise = "pushup" THEN trackerCount ELSE squatCount

\* C29: a call of stopTracking gives at most one session to
\* onSessionComplete, and gives one exactly when the count displayed for the
\* selected exercise is above 0; that session has this count as its count,
\* the selected exercise as its exercise and duration / count as its
\* avgTimePerRep
C29_StopTrackingSession ==
    [][handler' = "stopTracking" =>
           /\ Len(completed') <= 1
           /\ (Len(completed') = 1) <=> (Shown > 0)
           /\ \A i \in DOMAIN completed' :
                  /\ completed'[i].count = Shown
                  /\ completed'[i].exercise = selectedExercise
                  /\ completed'[i].avgTimePerRep.den > 0
                  /\ completed'[i].avgTimePerRep.num * Shown
                         = completed'[i].duration
                               * completed'[i].avgTimePerRep.den]_vars
\* stopTracking has completed a session of two squats in one second
C29_Witness ==
    /\ handler = "stopTracking"
    /\ completed = <<[count |-> 2, duration |-> 1,
                      avgTimePerRep |-> [num |-> 1, den |-> 2],
                      exercise |-> "squat"]>>

\* C30: a call of startTracking with the camera enabled and the video ready
\* leaves both detectors as reset() leaves them, both displayed counts 0,
\* isTracking true and the status "tracking"; any other call of it changes
\* neither the component nor a detector; the button that resumes from pause
\* changes no detector and no displayed count
C30_StartTrackingResets ==
    [][/\ handler' = "startTracking" =>
              IF cameraEnabled /\ videoReady
              THEN /\ counted' = [pushup |-> Fresh, squat |-> Fresh]
                   /\ trackerCount' = 0
                   /\ squatCount' = 0
                   /\ isTracking'
                   /\ status' = "tracking"
              ELSE UNCHANGED <<cameraEnabled, videoReady, status, isTracking,
                               trackerCount, squatCount, selectedExercise,
                               sessionTime, startTimeRef, counted, inflight>>
       /\ handler' = "resume" =>
              /\ UNCHANGED <<counted, trackerCount, squatCount>>
              /\ isTracking'
              /\ status' = "tracking"]_vars
\* startTracking has begun a session with detectors that had counted
C30_Witness ==
    /\ handler = "startTracking"
    /\ status = "tracking"
    /\ resetFrom.pushup.count > 0
    /\ resetFrom.squat.count > 0
    /\ counted = [pushup |-> Fresh, squat |-> Fresh]
\* startTracking has returned early
StartTrackingRefused ==
    /\ handler = "startTracking"
    /\ status = "ready"
\* the counts displayed after resuming from pause
Resumed ==
    /\ handler = "resume"
    /\ trackerCount > 0
    /\ counted.pushup.count > 0

\* C38: the status is "tracking" exactly when isTracking is true, and the
\* status is "ready" whenever the camera is not enabled
C38_StatusMatchesTracking ==
    /\ (status = "tracking") <=> isTracking
    /\ ~cameraEnabled => status = "ready"
\* the first half of it
StatusIsTracking == (status = "tracking") <=> isTracking

\* C32: from stopTracking until the next startTracking that begins a session,
\* the displayed push-up count and the displayed squat count are 0
C32_ZeroAfterStop == stopped => trackerCount = 0 /\ squatCount = 0

\* C33: the animation loop goes on feeding the detectors while the status
\* is "paused", and no displayed count changes while the status stays
\* "paused"
C33_PauseKeepsDisplay ==
    [][status = "paused" /\ status' = "paused" =>
           UNCHANGED <<trackerCount, squatCount>>]_vars
\* the detectors go on counting while the status is "paused"
CountedWhilePaused ==
    /\ status = "paused"
    /\ cameraEnabled
    /\ counted.pushup.count > trackerCount
    /\ selectedExercise = "pushup"

\* the debounced squat detector has processed a frame
DebouncedFrame ==
    /\ impl = "SquatDebounced"
    /\ lastOp = "onResults"
    /\ lastLabel \in {"up", "down", "between"}

\* C36: in the squat detector with up and down debouncing, a frame takes the
\* state from Up to Down only as the last of at least requiredDownFrames
\* down-frames in a row and from Down to Up only as the last of at least
\* requiredUpFrames up-frames in a row, the count changes on no other frame,
\* and it then grows by 1; so with both lengths 2 a single down-frame in the
\* state Up and a single up-frame in the state Down change neither
C36_DebouncedBothWays ==
    DebouncedFrame =>
        /\ (prev.state = Up /\ state # Up) =>
               /\ state = Down
               /\ sameRun.label = "down"
               /\ sameRun.length >= requiredDownFrames
        /\ (prev.state = Down /\ state # Down) =>
               /\ state = Up
               /\ sameRun.label = "up"
               /\ sameRun.length >= requiredUpFrames
        /\ count # prev.count =>
               prev.state = Down /\ state = Up /\ count = prev.count + 1
        /\ (prev.state = Up /\ sameRun = [label |-> "down", length |-> 1]
                /\ requiredDownFrames = 2) =>
               state = Up /\ count = prev.count
        /\ (prev.state = Down /\ sameRun = [label |-> "up", length |-> 1]
                /\ requiredUpFrames = 2) =>
               state = Down /\ count = prev.count
\* a single down-frame arrived in the state Up, the required lengths being 2
C36_Witness ==
    /\ DebouncedFrame
    /\ requiredUpFrames = 2 /\ requiredDownFrames = 2
    /\ prev.state = Up
    /\ sameRun = [label |-> "down", length |-> 1]
    /\ state = Up
\* the second down-frame in a row takes the state to Down
SecondDownFrame ==
    /\ DebouncedFrame
    /\ requiredDownFrames = 2
    /\ prev.state = Up /\ state = Down
    /\ sameRun = [label |-> "down", length |-> 2]
\* the second up-frame in a row completes a repetition
SecondUpFrame ==
    /\ DebouncedFrame
    /\ requiredUpFrames = 2
    /\ prev.state = Down /\ state = Up /\ count = prev.count + 1
    /\ sameRun = [label |-> "up", length |-> 2]

\* C37: from a frame of PushupDetector with an undefined elbow angle until
\* reset(), getLastAngle() is NaN after every operation
C37_NaNAngleSticks == (IsPushup /\ poisoned) => lastAvgAngle = NaN
\* an up-frame with both elbow angles defined has been processed after such
\* a frame
C37_Witness ==
    /\ IsPushup /\ poisoned
    /\ lastOp = "onResults" /\ lastLabel = "up"
    /\ lastResults = WithLandmarks(PoseUp170)
    /\ prev.lastAvgAngle = NaN
    /\ lastAvgAngle = NaN

\* C35: in the visibility-gated squat detector the reference of the
\* orientation check is the orientation accepted last, whatever frames were
\* rejected since, and from the first frame turned more than 15 degrees away
\* from it, for as long as the frames stay turned away and reset() is not
\* called, count and isDown are what they were before that frame
C35_OrientationLockOut ==
    impl = "SquatGated" =>
        /\ (torsoHistory = <<>>) <=> (turn.reference = <<>>)
        /\ torsoHistory # <<>> =>
               torsoHistory[Len(torsoHistory)] = turn.reference[1]
        /\ turn.run > 0 => count = turn.count /\ isDown = turn.isDown
\* the third frame in a row that is turned away, its legs visible, in the
\* down phase of the second repetition
C35_Witness ==
    /\ impl = "SquatGated" /\ lastOp = "onResults"
    /\ turn.run >= 3
    /\ lastResults.poseLandmarks # <<>>
    /\ ShowsLegs(lastResults.poseLandmarks[1])
    /\ isDown /\ count = 1

\* the last frame of the push-up revision with the visibility gate had the
\* six arm landmarks and no visible leg landmark, and was the first or the
\* second such frame in a row
ToleratedFrame ==
    /\ impl = "PushupGated" /\ ArmsSeen
    /\ ~ShowsLegs(lastResults.poseLandmarks[1])
    /\ prev.framesBelowVisibility < 2

\* C34: in the push-up revision with the visibility gate count grows only
\* on a frame with visible legs, and a frame without them that the gate
\* tolerates leaves state and count alone and consecutiveUpFrames at 0
C34_HiddenFrameNeverCounts ==
    /\ (impl = "PushupGated" /\ lastOp = "onResults" /\ count # prev.count) =>
           /\ lastResults.poseLandmarks # <<>>
           /\ ShowsLegs(lastResults.poseLandmarks[1])
    /\ ToleratedFrame =>
           /\ state = prev.state
           /\ count = prev.count
           /\ consecutiveUpFrames = 0
\* with one more up-frame to go in the state Down, a tolerated frame with
\* both elbow angles 170 arrives
C34_Witness ==
    /\ ToleratedFrame
    /\ lastResults = WithLandmarks(PoseUpHidden)
    /\ requiredUpFrames = 2
    /\ prev.state = Down /\ prev.legSeen /\ prev.consecutiveUpFrames = 1
    /\ state = Down /\ consecutiveUpFrames = 0
\* a tolerated down-frame in the state Up
ToleratedDownFrame ==
    /\ ToleratedFrame
    /\ lastResults = WithLandmarks(PoseDownHidden)
    /\ prev.state = Up /\ state = Up

\* no two accounts hold the same username, without regard to case
AccountsShareNoName ==
    \A a \in Registered : \A b \in Registered :
        a # b => toLowerCase(users[a][1]) # toLowerCase(users[b][1])

\* the rows of the table sessions that carry the same user_id carry the
\* same username
RowsOfAccountAgree ==
    \A i \in 1..Len(sessionRows) : \A j \in 1..Len(sessionRows) :
        (sessionRows[i].user_id # <<>> /\
         sessionRows[i].user_id = sessionRows[j].user_id)
            => sessionRows[i].username = sessionRows[j].username

\* C31: each account is associated with exactly one username: after any
\* sequence of register and saveSessionServer calls no two accounts hold
\* the same username (case-insensitively) and all session rows of one
\* account carry the same username
C31_OneUsernamePerAccount == AccountsShareNoName /\ RowsOfAccountAgree

\* two accounts are registered and one of them has saved a session
TwoAccountsSaved ==
    /\ Registered = Emails
    /\ \E j \in 1..Len(sessionRows) : sessionRows[j].user_id # <<>>

====
